---- MODULE Spec2Model ----
(***************************************************************************)
(* Model of kgtkr-icon: the skin-weight computation (smoothstep and the    *)
(* per-vertex loops of createArm / createLeg / createBody), the face       *)
(* segmentation of createHead, the VRMC_vrm hooks registered with the      *)
(* GLTFExporter (writeNode, writeMaterialAsync, afterParse), the build     *)
(* script and the export of its model, the face atlas, the                 *)
(* ExpressionController and the render loop with the loader's callbacks.   *)
(*                                                                         *)
(* Numbers.  A JavaScript number is modelled as an extended rational       *)
(*   [k |-> "num", n |-> numerator, d |-> denominator > 0]                 *)
(* or one of the three IEEE specials "pinf", "ninf", "nan".  Arithmetic on *)
(* "num" values is exact; the rounding of binary floating point and of the *)
(* Float32 attribute buffers is not modelled.  Lengths are in units of     *)
(* 1/100 (0.2 is 20).                                                      *)
(***************************************************************************)
EXTENDS Integers, Sequences, FiniteSets, Bags, TLC

VARIABLES
    pc,            \* position of the script / of the exporter pass
    bones,         \* const bones: THREE.Bone[]  (names, in insertion order)
    boneChildren,  \* bone name -> names of its child bones, in order
    boneIdx,       \* the bone indices addBone returned to the running create function
    part,          \* name of the Part under construction ("" before)
    position,      \* geometry.attributes.position: the blend-axis coordinate of each vertex
    skinIndices,   \* one <<b0,b1,b2,b3>> per vertex
    skinWeights,   \* one <<w0,w1,w2,w3>> per vertex
    probe,         \* one application of smoothstep: [e0, e1, x, w]
    partMaterial,  \* Part.material of the Part under construction (names, in order)
    vertexCount,   \* createHead: number of head vertices classified so far (loop variable i)
    mouthVertexIndices,     \* createHead: the three vertex lists of the classification
    leftEyeVertexIndices,
    rightEyeVertexIndices,
    index,         \* createHead: geometry.index as read by the face loop so far
    faceIndices,   \* createHead: the four index lists of the face loop
    mouthIndices,
    leftEyeIndices,
    rightEyeIndices,
    newIndices,    \* createHead: the index buffer set with geometry.setIndex
    groups,        \* createHead: geometry.groups, [start, count, materialIndex]
    nodeCount,             \* exporter plugin: let nodeCount
    meshToNodeIndex,       \* exporter plugin: Map from mesh name to node index
    materialCount,         \* exporter plugin: let materialCount
    materialToIndex,       \* exporter plugin: Map from material name to material index
    parserExtensionsUsed,  \* parser.extensionsUsed: the keys set to true
    gltfNodes,             \* gltf.nodes: the name of each node ("" for a node without a name)
    gltfMaterials,         \* gltf.materials: the name of each material the exporter indexed
    gltfExtensionsUsed,    \* gltf.extensionsUsed: [defined, list]
    gltfExtensions,        \* gltf.extensions.VRMC_vrm: [defined, humanBones, preset]
    warnings,              \* the console.warn calls: the bone names warned about
    exportError,           \* the error thrown out of the export pass ("none" if none)
    traversal,             \* exporter: [extra, bone, missing, material] position in the scene
    afterParseRuns,        \* number of times afterParse has run on the document
    calls,         \* the addBone calls of the caller of SpecBones: [bone, idx] per call
    step,          \* number of statements of the build script executed
    parts,         \* Part name -> [children, skinIndex]: the Parts created
    objChildren,   \* Object3D.children of the Groups and Meshes of Part.build, by object
    objName,       \* Object3D.name of the Groups and Meshes of Part.build, by object
    meshes,        \* const meshes: the SkinnedMeshes Part.build pushed, in order
    skeleton,      \* new THREE.Skeleton(bones): [built, bones, bound]
    vertexLocals,  \* createHead: <<x, y, z, u, v>> of the running classification iteration
    headUv,        \* geometry.attributes.uv of the head: the v of each vertex
    atlasCanvas,   \* the face atlas canvas: [height, draws], a draw being [kind, y, h]
    currentExpression,      \* ExpressionController: private currentExpression
    headMesh,               \* ExpressionController: private headMesh ("null" or "head")
    morphTargetInfluences,  \* the head mesh's morphTargetInfluences
    lastCall,      \* the last call of the controller: its arguments and the state before it
    initialUv,     \* the head's uv when the controller was constructed
    vrm,           \* let vrm: VRM | null ("null", "undefined" or "VRM")
    exportState,   \* exporter.parse: "idle", "parsing", "done" or "failed"
    link,          \* the download link the success callback created ("none" before)
    listeners,     \* number of click listeners on exportBtn
    downloads,     \* number of link.click() calls
    consoleErrors, \* the console.error calls
    animating,     \* an animation frame is requested
    frameCount,    \* number of runs of animate
    lastFrame,     \* the last run of animate: [vrm, updated, values]; updates counts vrm.update
    expressionValues,  \* the values set on the VRM's expressionManager
    loadState,     \* loader.load: "idle", "loading", "loaded" or "failed"
    sceneChildren  \* the objects the callbacks added to scene

skinVars == <<bones, boneChildren, boneIdx, part, position, skinIndices, skinWeights, probe>>

classVars == <<vertexCount, mouthVertexIndices, leftEyeVertexIndices, rightEyeVertexIndices>>

faceVars == <<index, faceIndices, mouthIndices, leftEyeIndices, rightEyeIndices>>

segVars == <<classVars, faceVars, newIndices, groups, vertexLocals>>

pluginVars == <<nodeCount, meshToNodeIndex, materialCount, materialToIndex>>

docVars == <<parserExtensionsUsed, gltfNodes, gltfMaterials, gltfExtensionsUsed, gltfExtensions>>

expVars == <<pluginVars, docVars, warnings, exportError, traversal, afterParseRuns>>

buildVars == <<calls, step, parts, objChildren, objName, meshes, skeleton>>

atlasVars == <<headUv, atlasCanvas>>

ctlVars == <<currentExpression, headMesh, morphTargetInfluences, lastCall, initialUv>>

renderVars == <<vrm, exportState, link, listeners, downloads, consoleErrors, animating,
                frameCount, lastFrame, expressionValues, loadState, sceneChildren>>

uiVars == <<atlasVars, ctlVars, renderVars>>

vars == <<pc, skinVars, partMaterial, segVars, expVars, buildVars, uiVars>>

(***************************************************************************)
(* Bounds                                                                  *)
(***************************************************************************)
GridN == 2         \* vertex coordinates lie within GridN steps of 2/100 of a blend edge
MaxVerts == 2      \* vertices per geometry
ProbeN == 3        \* smoothstep is probed with edge0, edge1, x in -ProbeN .. ProbeN
HeadVerts == 3     \* vertices of the head geometry

\* the coordinates within GridN steps of one of the given edges
EdgeGrid(edges) == { e + 2 * o : e \in edges, o \in (0 - GridN) .. GridN }
ProbeRange == (0 - ProbeN) .. ProbeN

(***************************************************************************)
(* JavaScript numbers                                                      *)
(***************************************************************************)
RECURSIVE GCD(_, _)
GCD(a, b) == IF b = 0 THEN a ELSE GCD(b, a % b)

Abs(n) == IF n < 0 THEN 0 - n ELSE n

\* the rational n/d (d > 0) in lowest terms
Num(n, d) ==
    LET g == GCD(Abs(n), d)
    IN  [k |-> "num", n |-> n \div g, d |-> d \div g]
I(n) == Num(n, 1)
NaN == [k |-> "nan", n |-> 0, d |-> 1]
PInf == [k |-> "pinf", n |-> 1, d |-> 1]
NInf == [k |-> "ninf", n |-> 0 - 1, d |-> 1]

IsNum(a) == a.k = "num"
IsNaN(a) == a.k = "nan"

\* sign of a value that is not NaN: -1, 0, 1
Sign(a) ==
    IF a.k = "pinf" THEN 1
    ELSE IF a.k = "ninf" THEN 0 - 1
    ELSE IF a.n > 0 THEN 1 ELSE IF a.n < 0 THEN 0 - 1 ELSE 0

InfOf(s) == IF s > 0 THEN PInf ELSE NInf

\* a <= b for values that are not NaN
Leq(a, b) ==
    IF a.k = "ninf" \/ b.k = "pinf" THEN TRUE
    ELSE IF a.k = "pinf" \/ b.k = "ninf" THEN FALSE
    ELSE a.n * b.d <= b.n * a.d

Eq(a, b) ==
    /\ a.k = b.k
    /\ a.k # "nan"
    /\ a.k = "num" => a.n * b.d = b.n * a.d

Mul(a, b) ==
    IF IsNaN(a) \/ IsNaN(b) THEN NaN
    ELSE IF IsNum(a) /\ IsNum(b) THEN Num(a.n * b.n, a.d * b.d)
    ELSE IF Sign(a) = 0 \/ Sign(b) = 0 THEN NaN
    ELSE InfOf(Sign(a) * Sign(b))

Neg(a) ==
    IF IsNaN(a) THEN NaN
    ELSE IF IsNum(a) THEN Num(0 - a.n, a.d)
    ELSE InfOf(0 - Sign(a))

Add(a, b) ==
    IF IsNaN(a) \/ IsNaN(b) THEN NaN
    ELSE IF IsNum(a) /\ IsNum(b) THEN Num(a.n * b.d + b.n * a.d, a.d * b.d)
    ELSE IF IsNum(a) THEN b
    ELSE IF IsNum(b) THEN a
    ELSE IF a.k = b.k THEN a ELSE NaN

Sub(a, b) == Add(a, Neg(b))

\* a / b as JavaScript computes it: a division by zero does not throw
Div(a, b) ==
    IF IsNaN(a) \/ IsNaN(b) THEN NaN
    ELSE IF IsNum(a) /\ IsNum(b) THEN
        IF b.n = 0 THEN (IF a.n = 0 THEN NaN ELSE InfOf(Sign(a)))
        ELSE IF b.n > 0 THEN Num(a.n * b.d, a.d * b.n)
        ELSE Num(0 - (a.n * b.d), a.d * (0 - b.n))
    ELSE IF IsNum(b) THEN InfOf(Sign(a) * (IF Sign(b) < 0 THEN 0 - 1 ELSE 1))
    ELSE IF IsNum(a) THEN I(0)
    ELSE NaN

\* Math.min / Math.max: NaN if either argument is NaN
MathMin(a, b) == IF IsNaN(a) \/ IsNaN(b) THEN NaN ELSE IF Leq(a, b) THEN a ELSE b
MathMax(a, b) == IF IsNaN(a) \/ IsNaN(b) THEN NaN ELSE IF Leq(a, b) THEN b ELSE a

(***************************************************************************)
(* smoothstep                                                              *)
(***************************************************************************)
\* smoothstep with both clamps left out
smoothstepNoClamp(edge0, edge1, x) ==
    LET t == Div(Sub(x, edge0), Sub(edge1, edge0))
    IN  Mul(Mul(t, t), Sub(I(3), Mul(I(2), t)))

\* smoothstep that clamps the polynomial but not its argument
smoothstepLateClamp(edge0, edge1, x) ==
    LET t == Div(Sub(x, edge0), Sub(edge1, edge0))
        r == Mul(Mul(t, t), Sub(I(3), Mul(I(2), t)))
    IN  MathMax(I(0), MathMin(I(1), r))

smoothstep(edge0, edge1, x) ==
    LET t == MathMax(I(0), MathMin(I(1), Div(Sub(x, edge0), Sub(edge1, edge0))))
        r == Mul(Mul(t, t), Sub(I(3), Mul(I(2), t)))
    IN  MathMax(I(0), MathMin(I(1), r))

(***************************************************************************)
(* Bones                                                                   *)
(***************************************************************************)
\* the index a version of addBone returns that reads bones.length after the push
addBoneIdxAfterPush(bs) == Len(bs) + 1

\* addBone(bone): the index returned, and the list after the push
addBoneIdx(bs) == Len(bs)
addBone(bs, name) == Append(bs, name)

\* parent.add(child) of THREE.Object3D: the child leaves its old parent, then
\* is pushed at the end of the new parent's children
ObjAdd(ch, parent, child) ==
    LET removed == [o \in DOMAIN ch |-> SelectSeq(ch[o], LAMBDA c : c # child)]
        withBoth == [o \in DOMAIN ch \cup {parent, child} |->
                        IF o \in DOMAIN ch THEN removed[o] ELSE <<>>]
    IN  [withBoth EXCEPT ![parent] = Append(@, child)]

NewBone(ch, name) ==
    [o \in DOMAIN ch \cup {name} |-> IF o \in DOMAIN ch THEN ch[o] ELSE <<>>]

Direction(namePrefix) == IF namePrefix = "left" THEN 1 ELSE 0 - 1

(***************************************************************************)
(* createArm                                                               *)
(***************************************************************************)
ArmCenterX == -20
ArmThreshold == 20

ArmGrid ==
    EdgeGrid({ArmCenterX - ArmThreshold, ArmCenterX + ArmThreshold,
              0 - (ArmCenterX - ArmThreshold), 0 - (ArmCenterX + ArmThreshold)})

ArmWeights(w) == <<Sub(I(1), w), w, I(0), I(0)>>

CreateArm(namePrefix) ==
    /\ pc = "start"
    /\ LET shoulder == namePrefix \o "Shoulder"
           upper == namePrefix \o "UpperArm"
           lower == namePrefix \o "LowerArm"
           b1 == addBone(bones, shoulder)
           b2 == addBone(b1, upper)
           b3 == addBone(b2, lower)
       IN  /\ bones' = b3
           /\ boneIdx' = [shoulder |-> addBoneIdx(bones), upper |-> addBoneIdx(b1),
                          lower |-> addBoneIdx(b2)]
           /\ boneChildren' =
                 ObjAdd(ObjAdd(NewBone(boneChildren, shoulder), shoulder, upper), upper, lower)
    /\ part' = namePrefix \o "Arm"
    /\ pc' = "arm"
    /\ UNCHANGED <<position, skinIndices, skinWeights, probe, partMaterial, segVars>>
    /\ UNCHANGED expVars
    /\ UNCHANGED buildVars
    /\ UNCHANGED uiVars

\* one iteration of createArm's vertex loop; px is position.getX(i)
ArmVertex(px) ==
    /\ pc = "arm"
    /\ Len(position) < MaxVerts
    /\ LET direction == Direction(IF part = "leftArm" THEN "left" ELSE "right")
           x == I(px * direction)
           edge0 == I(ArmCenterX - ArmThreshold)
           edge1 == I(ArmCenterX + ArmThreshold)
           weight == smoothstep(edge0, edge1, x)
       IN  /\ skinIndices' = Append(skinIndices, <<boneIdx.upper, boneIdx.lower, 0, 0>>)
           /\ skinWeights' = Append(skinWeights, ArmWeights(weight))
    /\ position' = Append(position, px)
    /\ UNCHANGED <<pc, bones, boneChildren, boneIdx, part, probe, partMaterial, segVars>>
    /\ UNCHANGED expVars
    /\ UNCHANGED buildVars
    /\ UNCHANGED uiVars

(***************************************************************************)
(* createLeg                                                               *)
(***************************************************************************)
LegThreshold == 15
LegCenterY == 25

LegGrid == EdgeGrid({LegCenterY - LegThreshold, LegCenterY + LegThreshold})

\* the leg's weights in the order of the arm's
LegWeightsArmOrder(w) == <<Sub(I(1), w), w, I(0), I(0)>>

LegWeights(w) == <<w, Sub(I(1), w), I(0), I(0)>>

CreateLeg(namePrefix) ==
    /\ pc = "start"
    /\ LET upperLeg == namePrefix \o "UpperLeg"
           lowerLeg == namePrefix \o "LowerLeg"
           b1 == addBone(bones, upperLeg)
           b2 == addBone(b1, lowerLeg)
       IN  /\ bones' = b2
           /\ boneIdx' = [upperLeg |-> addBoneIdx(bones), lowerLeg |-> addBoneIdx(b1)]
           /\ boneChildren' = ObjAdd(NewBone(boneChildren, upperLeg), upperLeg, lowerLeg)
    /\ part' = namePrefix \o "Leg"
    /\ pc' = "leg"
    /\ UNCHANGED <<position, skinIndices, skinWeights, probe, partMaterial, segVars>>
    /\ UNCHANGED expVars
    /\ UNCHANGED buildVars
    /\ UNCHANGED uiVars

\* one iteration of createLeg's vertex loop; py is position.getY(i)
LegVertex(py) ==
    /\ pc = "leg"
    /\ Len(position) < MaxVerts
    /\ LET y == I(py)
           edge0 == I(LegCenterY - LegThreshold)
           edge1 == I(LegCenterY + LegThreshold)
           weight == smoothstep(edge0, edge1, y)
       IN  /\ skinIndices' = Append(skinIndices, <<boneIdx.upperLeg, boneIdx.lowerLeg, 0, 0>>)
           /\ skinWeights' = Append(skinWeights, LegWeights(weight))
    /\ position' = Append(position, py)
    /\ UNCHANGED <<pc, bones, boneChildren, boneIdx, part, probe, partMaterial, segVars>>
    /\ UNCHANGED expVars
    /\ UNCHANGED buildVars
    /\ UNCHANGED uiVars

(***************************************************************************)
(* createBody                                                              *)
(***************************************************************************)
BodyHeight == 80
BodyOffsetY == -50

\* edge0 .. edge4 of createBody's loop, as BodyEdge(0) .. BodyEdge(4)
BodyEdge(j) ==
    CASE j = 0 -> I(BodyOffsetY)
      [] j = 1 -> Add(I(BodyOffsetY), Mul(I(BodyHeight), Num(1, 10)))
      [] j = 2 -> Add(I(BodyOffsetY), Mul(I(BodyHeight), Num(4, 10)))
      [] j = 3 -> Add(I(BodyOffsetY), Mul(I(BodyHeight), Num(8, 10)))
      [] j = 4 -> Add(I(BodyOffsetY), I(BodyHeight))

\* a < b for numbers
Less(a, b) == ~Leq(b, a)

\* the segment (1..4) createBody's if-chain picks for y
BodySegment(y) ==
    IF Less(y, BodyEdge(1)) THEN 1
    ELSE IF Less(y, BodyEdge(2)) THEN 2
    ELSE IF Less(y, BodyEdge(3)) THEN 3
    ELSE 4

\* BodyEdge(j) in hundredths (an integer for each j)
BodyEdgeInt(j) == BodyEdge(j).n \div BodyEdge(j).d

BodyGrid == EdgeGrid({BodyEdgeInt(j) : j \in 0 .. 4})

\* the push with the two active weights exchanged
BodyWeightsSwapped(w) == <<w, Sub(I(1), w), I(0), I(0)>>

\* skinWeights.push(1 - weight, weight, 0, 0)
BodyWeights(w) == <<Sub(I(1), w), w, I(0), I(0)>>

CreateBody ==
    /\ pc = "start"
    /\ LET b1 == addBone(bones, "hips")
           b2 == addBone(b1, "spine")
           b3 == addBone(b2, "chest")
           b4 == addBone(b3, "upperChest")
           b5 == addBone(b4, "neck")
       IN  /\ bones' = b5
           /\ boneIdx' = <<addBoneIdx(bones), addBoneIdx(b1), addBoneIdx(b2),
                           addBoneIdx(b3), addBoneIdx(b4)>>
           /\ boneChildren' =
                 ObjAdd(ObjAdd(ObjAdd(ObjAdd(NewBone(boneChildren, "hips"),
                    "hips", "spine"), "spine", "chest"), "chest", "upperChest"),
                    "upperChest", "neck")
    /\ part' = "body"
    /\ pc' = "body"
    /\ UNCHANGED <<position, skinIndices, skinWeights, probe, partMaterial, segVars>>
    /\ UNCHANGED expVars
    /\ UNCHANGED buildVars
    /\ UNCHANGED uiVars

\* one iteration of createBody's vertex loop; py is position.getY(i)
BodyVertex(py) ==
    /\ pc = "body"
    /\ Len(position) < MaxVerts
    /\ LET y == I(py)
           s == BodySegment(y)
           weight == smoothstep(BodyEdge(s - 1), BodyEdge(s), y)
       IN  /\ skinIndices' = Append(skinIndices, <<boneIdx[s], boneIdx[s + 1], 0, 0>>)
           /\ skinWeights' = Append(skinWeights, BodyWeights(weight))
    /\ position' = Append(position, py)
    /\ UNCHANGED <<pc, bones, boneChildren, boneIdx, part, probe, partMaterial, segVars>>
    /\ UNCHANGED expVars
    /\ UNCHANGED buildVars
    /\ UNCHANGED uiVars

\* the vertex loop ends (i = vertexCount) and the Part is returned
EndPart ==
    /\ pc \in {"arm", "leg", "body"}
    /\ pc' = "built"
    /\ partMaterial' = <<"">>
    /\ UNCHANGED <<skinVars, segVars>>
    /\ UNCHANGED expVars
    /\ UNCHANGED buildVars
    /\ UNCHANGED uiVars

(***************************************************************************)
(* One application of smoothstep to arbitrary arguments                    *)
(***************************************************************************)
NoProbe == [e0 |-> 0, e1 |-> 0, x |-> 0, w |-> NaN, done |-> FALSE]

Probe(e0, e1, x) ==
    /\ pc = "start"
    /\ probe' = [e0 |-> e0, e1 |-> e1, x |-> x, w |-> smoothstep(I(e0), I(e1), I(x)),
                 done |-> TRUE]
    /\ pc' = "probed"
    /\ UNCHANGED <<bones, boneChildren, boneIdx, part, position, skinIndices, skinWeights>>
    /\ UNCHANGED <<partMaterial, segVars>>
    /\ UNCHANGED expVars
    /\ UNCHANGED buildVars
    /\ UNCHANGED uiVars

(***************************************************************************)
(* Specification of the skin-weight assignment: one blended Part is built, *)
(* or smoothstep is applied once.  The bone list starts empty or holds the *)
(* head bone, which the script creates before any blended Part.            *)
(***************************************************************************)
\* the build script has not started
InitBuildIdle ==
    /\ calls = <<>>
    /\ step = 0
    /\ parts = <<>>
    /\ objChildren = <<>>
    /\ objName = <<>>
    /\ meshes = <<>>
    /\ skeleton = [built |-> FALSE, bones |-> <<>>, bound |-> <<>>]

\* the last run of animate, before any
NoFrame == [vrm |-> "null", updated |-> FALSE, values |-> <<>>, updates |-> 0]

\* the last call of the controller, before any
NoCall == [count |-> 0, method |-> "", expression |-> "", weight |-> 0,
           currentExpression |-> "", headUv |-> <<>>, morphTargetInfluences |-> <<>>]

\* createHead has not made the atlas, no controller is constructed and
\* exporter.parse has not been called
InitUiIdle ==
    /\ headUv = <<>>
    /\ atlasCanvas = [height |-> 0, draws |-> <<>>]
    /\ currentExpression = ""
    /\ headMesh = "null"
    /\ morphTargetInfluences = <<>>
    /\ lastCall = NoCall
    /\ initialUv = <<>>
    /\ vrm = "null"
    /\ exportState = "idle"
    /\ link = "none"
    /\ listeners = 0
    /\ downloads = 0
    /\ consoleErrors = <<>>
    /\ animating = FALSE
    /\ frameCount = 0
    /\ lastFrame = NoFrame
    /\ expressionValues = <<>>
    /\ loadState = "idle"
    /\ sceneChildren = <<>>

\* exporter.register's callback has run for this parser; nothing is exported yet
InitExportIdle ==
    /\ nodeCount = 0
    /\ meshToNodeIndex = <<>>
    /\ materialCount = 0
    /\ materialToIndex = <<>>
    /\ parserExtensionsUsed = {}
    /\ gltfNodes = <<>>
    /\ gltfMaterials = <<>>
    /\ gltfExtensionsUsed = [defined |-> FALSE, list |-> <<>>]
    /\ gltfExtensions = [defined |-> FALSE, humanBones |-> <<>>, preset |-> <<>>]
    /\ warnings = <<>>
    /\ exportError = "none"
    /\ traversal = [extra |-> 0, bone |-> 0, missing |-> 0, material |-> 0]
    /\ afterParseRuns = 0

\* createHead has not run
InitSegIdle ==
    /\ vertexCount = 0
    /\ mouthVertexIndices = <<>>
    /\ leftEyeVertexIndices = <<>>
    /\ rightEyeVertexIndices = <<>>
    /\ index = <<>>
    /\ faceIndices = <<>>
    /\ mouthIndices = <<>>
    /\ leftEyeIndices = <<>>
    /\ rightEyeIndices = <<>>
    /\ newIndices = <<>>
    /\ groups = <<>>
    /\ vertexLocals = <<>>

InitSkin ==
    /\ pc = "start"
    /\ partMaterial = <<>>
    /\ InitSegIdle
    /\ InitExportIdle
    /\ InitBuildIdle
    /\ InitUiIdle
    /\ \/ bones = <<>> /\ boneChildren = <<>>
       \/ bones = <<"head">> /\ boneChildren = [o \in {"head"} |-> <<>>]
    /\ boneIdx = <<>>
    /\ part = ""
    /\ position = <<>>
    /\ skinIndices = <<>>
    /\ skinWeights = <<>>
    /\ probe = NoProbe

NextSkin ==
    \/ \E namePrefix \in {"left", "right"} : CreateArm(namePrefix)
    \/ \E px \in ArmGrid : ArmVertex(px)
    \/ \E namePrefix \in {"left", "right"} : CreateLeg(namePrefix)
    \/ \E py \in LegGrid : LegVertex(py)
    \/ CreateBody
    \/ \E py \in BodyGrid : BodyVertex(py)
    \/ EndPart
    \/ \E e0, e1, x \in ProbeRange : Probe(e0, e1, x)

SpecSkin == InitSkin /\ [][NextSkin]_vars

(***************************************************************************)
(* Skin-weight claims                                                      *)
(***************************************************************************)
\* the blend-axis value of vertex i of the Part under construction
BlendValue(i) ==
    IF part = "leftArm" THEN I(position[i])
    ELSE IF part = "rightArm" THEN I(0 - position[i])
    ELSE I(position[i])

\* the blend interval <<edge0, edge1>> the loop uses for vertex i
BlendInterval(i) ==
    IF part \in {"leftArm", "rightArm"}
        THEN <<I(ArmCenterX - ArmThreshold), I(ArmCenterX + ArmThreshold)>>
    ELSE IF part \in {"leftLeg", "rightLeg"}
        THEN <<I(LegCenterY - LegThreshold), I(LegCenterY + LegThreshold)>>
    ELSE <<BodyEdge(BodySegment(I(position[i])) - 1), BodyEdge(BodySegment(I(position[i])))>>

InUnit(a) == IsNum(a) /\ Leq(I(0), a) /\ Leq(a, I(1))

\* C1: for edge0 < edge1 the two weights written for a blended vertex,
\* 1 - smoothstep(edge0, edge1, v) and smoothstep(edge0, edge1, v), each lie
\* in [0,1] and sum to 1; so do the two active weights of every vertex of the
\* arm, leg and body Parts.
C1_WeightsUnitSum ==
    /\ \A i \in 1 .. Len(skinWeights) :
          /\ InUnit(skinWeights[i][1])
          /\ InUnit(skinWeights[i][2])
          /\ Eq(Add(skinWeights[i][1], skinWeights[i][2]), I(1))
    /\ (probe.done /\ probe.e0 < probe.e1) =>
          /\ InUnit(probe.w)
          /\ InUnit(Sub(I(1), probe.w))
          /\ Eq(Add(Sub(I(1), probe.w), probe.w), I(1))

\* a Part was built that has a vertex strictly inside its blend interval,
\* both of whose weights are strictly between 0 and 1
C1_Witness ==
    /\ pc = "built"
    /\ \E i \in 1 .. Len(skinWeights) :
          /\ Less(I(0), skinWeights[i][1]) /\ Less(skinWeights[i][1], I(1))
          /\ Less(I(0), skinWeights[i][2]) /\ Less(skinWeights[i][2], I(1))
          /\ Less(BlendInterval(i)[1], BlendValue(i))
          /\ Less(BlendValue(i), BlendInterval(i)[2])

\* C2: with edge0 < edge1, smoothstep is exactly 0 for v <= edge0 and exactly
\* 1 for v >= edge1; a vertex outside its blend interval gets one weight 1
\* and the other 0 (it is bound to a single bone).
C2_ExactOutsideInterval ==
    /\ (probe.done /\ probe.e0 < probe.e1) =>
          /\ probe.x <= probe.e0 => Eq(probe.w, I(0))
          /\ probe.x >= probe.e1 => Eq(probe.w, I(1))
    /\ \A i \in 1 .. Len(skinWeights) :
          (Leq(BlendValue(i), BlendInterval(i)[1]) \/ Leq(BlendInterval(i)[2], BlendValue(i))) =>
              \/ Eq(skinWeights[i][1], I(1)) /\ Eq(skinWeights[i][2], I(0))
              \/ Eq(skinWeights[i][1], I(0)) /\ Eq(skinWeights[i][2], I(1))

\* smoothstep was applied strictly above a proper interval and returned 1
C2_Witness ==
    /\ probe.done
    /\ probe.e0 < probe.e1
    /\ probe.x > probe.e1
    /\ Eq(probe.w, I(1))

\* C3 (as claimed): for a degenerate interval (edge0 = edge1) t is clamped to
\* 0, so smoothstep returns 0 and the weight pair is the defined pair (1, 0)
\* for every v.
C3_DegenerateDefined ==
    (probe.done /\ probe.e0 = probe.e1) =>
        /\ IsNum(probe.w)
        /\ Eq(probe.w, I(0))
        /\ Eq(Sub(I(1), probe.w), I(1))

(***************************************************************************)
(* createHead: vertex classification and face segmentation                 *)
(***************************************************************************)
MaxFaces == (HeadVerts + 1) \div 2    \* triangles of the head geometry

GROUP_FACE == 0
GROUP_MOUTH == 1
GROUP_LEFT_EYE == 2
GROUP_RIGHT_EYE == 3

\* vertex coordinates (x, y, z in 1/100) and UVs (u, v in 1/100) on both
\* sides of every threshold of the classification
HeadXs == {0, 20}
HeadYs == {0 - 20, 0}
HeadZs == {0, 20}
HeadUs == {45, 50, 55}
HeadVs == {7, 12}

InMouth(x, y, z) == y < 0 - 10 /\ y > 0 - 30 /\ z > 10 /\ Abs(x) < 15
InLeftEye(u, v) == 40 < u /\ u < 50 /\ 5 < v /\ v < 10
InRightEye(u, v) == 50 < u /\ u < 60 /\ 5 < v /\ v < 10

\* Array.prototype.includes
Includes(list, i) == \E j \in 1 .. Len(list) : list[j] = i

\* the count with the third vertex of the triangle left out
CountInFirstTwo(list, i0, i1, i2) ==
    (IF Includes(list, i0) THEN 1 ELSE 0) + (IF Includes(list, i1) THEN 1 ELSE 0)

\* [i0, i1, i2].filter((i) => list.includes(i)).length
CountIn(list, i0, i1, i2) ==
    (IF Includes(list, i0) THEN 1 ELSE 0) + (IF Includes(list, i1) THEN 1 ELSE 0)
        + (IF Includes(list, i2) THEN 1 ELSE 0)

\* the group chosen with a threshold of one labelled vertex
FaceGroupAnyVertex(mouthV, leftV, rightV, i0, i1, i2) ==
    IF CountIn(mouthV, i0, i1, i2) >= 1 THEN GROUP_MOUTH
    ELSE IF CountIn(leftV, i0, i1, i2) >= 1 THEN GROUP_LEFT_EYE
    ELSE IF CountIn(rightV, i0, i1, i2) >= 1 THEN GROUP_RIGHT_EYE
    ELSE GROUP_FACE

\* the group the if-chain of the face loop picks for triangle (i0, i1, i2)
FaceGroup(mouthV, leftV, rightV, i0, i1, i2) ==
    LET mouthCount == CountIn(mouthV, i0, i1, i2)
        leftEyeCount == CountIn(leftV, i0, i1, i2)
        rightEyeCount == CountIn(rightV, i0, i1, i2)
    IN  IF mouthCount >= 2 THEN GROUP_MOUTH
        ELSE IF leftEyeCount >= 2 THEN GROUP_LEFT_EYE
        ELSE IF rightEyeCount >= 2 THEN GROUP_RIGHT_EYE
        ELSE GROUP_FACE

\* a push that also runs for the face list when another branch was taken
PushIfFallThrough(list, g, own, i0, i1, i2) ==
    IF g = own \/ own = GROUP_FACE THEN list \o <<i0, i1, i2>> ELSE list

\* list.push(i0, i1, i2) in the branch of group own, when the chain picked g
PushIf(list, g, own, i0, i1, i2) ==
    IF g = own THEN list \o <<i0, i1, i2>> ELSE list

\* the new index buffer with the mouth list first
NewIndicesMouthFirst(face, mouth, leftEye, rightEye) ==
    mouth \o face \o leftEye \o rightEye

\* new Uint32Array([...faceIndices, ...mouthIndices, ...leftEyeIndices, ...rightEyeIndices])
NewIndices(face, mouth, leftEye, rightEye) ==
    face \o mouth \o leftEye \o rightEye

Group(start, count, materialIndex) ==
    [start |-> start, count |-> count, materialIndex |-> materialIndex]

\* the four addGroup calls, indexOffset advancing by each list's length
HeadGroups(face, mouth, leftEye, rightEye) ==
    LET o1 == 0 + Len(face)
        o2 == o1 + Len(mouth)
        o3 == o2 + Len(leftEye)
    IN  << Group(0, Len(face), GROUP_FACE),
           Group(o1, Len(mouth), GROUP_MOUTH),
           Group(o2, Len(leftEye), GROUP_LEFT_EYE),
           Group(o3, Len(rightEye), GROUP_RIGHT_EYE) >>

HeadMaterials ==
    <<"headFaceMaterial", "headMouthMaterial", "headLeftEyeMaterial", "headRightEyeMaterial">>

\* createHead up to the classification loop: the head bone is added
CreateHead ==
    /\ pc = "start"
    /\ bones' = addBone(bones, "head")
    /\ boneIdx' = [head |-> addBoneIdx(bones)]
    /\ boneChildren' = NewBone(boneChildren, "head")
    /\ pc' = "classify"
    /\ UNCHANGED <<part, position, skinIndices, skinWeights, probe, partMaterial, segVars>>
    /\ UNCHANGED expVars
    /\ UNCHANGED buildVars
    /\ UNCHANGED uiVars

\* the iteration with three independent if statements
ClassifyVertexNoElse(x, y, z, u, v) ==
    /\ pc = "classify"
    /\ vertexCount < HeadVerts
    /\ mouthVertexIndices' =
           IF InMouth(x, y, z) THEN Append(mouthVertexIndices, vertexCount)
                               ELSE mouthVertexIndices
    /\ leftEyeVertexIndices' =
           IF InLeftEye(u, v) THEN Append(leftEyeVertexIndices, vertexCount)
                              ELSE leftEyeVertexIndices
    /\ rightEyeVertexIndices' =
           IF InRightEye(u, v) THEN Append(rightEyeVertexIndices, vertexCount)
                               ELSE rightEyeVertexIndices
    /\ vertexCount' = vertexCount + 1
    /\ vertexLocals' = <<x, y, z, u, v>>
    /\ UNCHANGED <<pc, skinVars, partMaterial, faceVars, newIndices, groups>>
    /\ UNCHANGED expVars
    /\ UNCHANGED buildVars
    /\ UNCHANGED uiVars

\* the iteration with the mouth test ahead of, and apart from, the eyes' chain
ClassifyVertexMouthApart(x, y, z, u, v) ==
    /\ pc = "classify"
    /\ vertexCount < HeadVerts
    /\ mouthVertexIndices' =
           IF InMouth(x, y, z) THEN Append(mouthVertexIndices, vertexCount)
                               ELSE mouthVertexIndices
    /\ IF InLeftEye(u, v)
         THEN /\ leftEyeVertexIndices' = Append(leftEyeVertexIndices, vertexCount)
              /\ UNCHANGED rightEyeVertexIndices
         ELSE IF InRightEye(u, v)
         THEN /\ rightEyeVertexIndices' = Append(rightEyeVertexIndices, vertexCount)
              /\ UNCHANGED leftEyeVertexIndices
         ELSE UNCHANGED <<leftEyeVertexIndices, rightEyeVertexIndices>>
    /\ vertexCount' = vertexCount + 1
    /\ vertexLocals' = <<x, y, z, u, v>>
    /\ UNCHANGED <<pc, skinVars, partMaterial, faceVars, newIndices, groups>>
    /\ UNCHANGED expVars
    /\ UNCHANGED buildVars
    /\ UNCHANGED uiVars

\* one iteration of the classification loop, for vertex i = vertexCount
ClassifyVertex(x, y, z, u, v) ==
    /\ pc = "classify"
    /\ vertexCount < HeadVerts
    /\ IF InMouth(x, y, z)
         THEN /\ mouthVertexIndices' = Append(mouthVertexIndices, vertexCount)
              /\ UNCHANGED <<leftEyeVertexIndices, rightEyeVertexIndices>>
         ELSE IF InLeftEye(u, v)
         THEN /\ leftEyeVertexIndices' = Append(leftEyeVertexIndices, vertexCount)
              /\ UNCHANGED <<mouthVertexIndices, rightEyeVertexIndices>>
         ELSE IF InRightEye(u, v)
         THEN /\ rightEyeVertexIndices' = Append(rightEyeVertexIndices, vertexCount)
              /\ UNCHANGED <<mouthVertexIndices, leftEyeVertexIndices>>
         ELSE UNCHANGED <<mouthVertexIndices, leftEyeVertexIndices, rightEyeVertexIndices>>
    /\ vertexCount' = vertexCount + 1
    /\ vertexLocals' = <<x, y, z, u, v>>
    /\ UNCHANGED <<pc, skinVars, partMaterial, faceVars, newIndices, groups>>
    /\ UNCHANGED expVars
    /\ UNCHANGED buildVars
    /\ UNCHANGED uiVars

\* the classification loop ends at pos.count; geometry.clearGroups()
EndClassify ==
    /\ pc = "classify"
    /\ vertexCount = HeadVerts
    /\ groups' = <<>>
    /\ vertexLocals' = <<>>
    /\ pc' = "faces"
    /\ UNCHANGED <<skinVars, partMaterial, classVars, faceVars, newIndices>>
    /\ UNCHANGED expVars
    /\ UNCHANGED buildVars
    /\ UNCHANGED uiVars

\* one iteration of the face loop, for f = Len(index) / 3; (i0, i1, i2) are
\* the three entries of the index buffer at f * 3
SegmentFace(i0, i1, i2) ==
    /\ pc = "faces"
    /\ Len(index) < 3 * MaxFaces
    /\ i0 < vertexCount /\ i1 < vertexCount /\ i2 < vertexCount
    /\ LET g == FaceGroup(mouthVertexIndices, leftEyeVertexIndices, rightEyeVertexIndices,
                          i0, i1, i2)
       IN  /\ mouthIndices' = PushIf(mouthIndices, g, GROUP_MOUTH, i0, i1, i2)
           /\ leftEyeIndices' = PushIf(leftEyeIndices, g, GROUP_LEFT_EYE, i0, i1, i2)
           /\ rightEyeIndices' = PushIf(rightEyeIndices, g, GROUP_RIGHT_EYE, i0, i1, i2)
           /\ faceIndices' = PushIf(faceIndices, g, GROUP_FACE, i0, i1, i2)
    /\ index' = index \o <<i0, i1, i2>>
    /\ UNCHANGED <<pc, skinVars, partMaterial, classVars, newIndices, groups, vertexLocals>>
    /\ UNCHANGED expVars
    /\ UNCHANGED buildVars
    /\ UNCHANGED uiVars

\* the face loop ends at faceCount; the rest of createHead: setIndex, the
\* four addGroup calls, the skin attributes, the materials and the Part
FinishHead ==
    /\ pc = "faces"
    /\ newIndices' = NewIndices(faceIndices, mouthIndices, leftEyeIndices, rightEyeIndices)
    /\ groups' = groups \o HeadGroups(faceIndices, mouthIndices, leftEyeIndices, rightEyeIndices)
    /\ skinIndices' = [i \in 1 .. vertexCount |-> <<boneIdx.head, 0, 0, 0>>]
    /\ skinWeights' = [i \in 1 .. vertexCount |-> <<I(1), I(0), I(0), I(0)>>]
    /\ partMaterial' = HeadMaterials
    /\ part' = "head"
    /\ pc' = "built"
    /\ UNCHANGED <<bones, boneChildren, boneIdx, position, probe, classVars, faceVars, vertexLocals>>
    /\ UNCHANGED expVars
    /\ UNCHANGED buildVars
    /\ UNCHANGED uiVars

(***************************************************************************)
(* Specification of createHead.  The head is the first Part the script     *)
(* creates, so the bone list starts empty.                                 *)
(***************************************************************************)
InitHead ==
    /\ pc = "start"
    /\ bones = <<>>
    /\ boneChildren = <<>>
    /\ boneIdx = <<>>
    /\ part = ""
    /\ position = <<>>
    /\ skinIndices = <<>>
    /\ skinWeights = <<>>
    /\ probe = NoProbe
    /\ partMaterial = <<>>
    /\ InitSegIdle
    /\ InitExportIdle
    /\ InitBuildIdle
    /\ InitUiIdle

NextHead ==
    \/ CreateHead
    \/ \E x \in HeadXs, y \in HeadYs, z \in HeadZs, u \in HeadUs, v \in HeadVs :
          ClassifyVertex(x, y, z, u, v)
    \/ EndClassify
    \/ \E i0, i1, i2 \in 0 .. (HeadVerts - 1) : SegmentFace(i0, i1, i2)
    \/ FinishHead

SpecHead == InitHead /\ [][NextHead]_vars

(***************************************************************************)
(* Face-segmentation claims                                                *)
(***************************************************************************)
\* the k-th triangle (k = 1, 2, ..) of a flat index list
Tri(list, k) == <<list[3 * k - 2], list[3 * k - 1], list[3 * k]>>

TriCount(list) == Len(list) \div 3

\* number of times triangle t occurs in a flat index list
Occ(list, t) == Cardinality({k \in 1 .. TriCount(list) : Tri(list, k) = t})

InList(list, t) == \E k \in 1 .. TriCount(list) : Tri(list, k) = t

\* the index list of group g
ListOf(g) ==
    CASE g = GROUP_FACE -> faceIndices
      [] g = GROUP_MOUTH -> mouthIndices
      [] g = GROUP_LEFT_EYE -> leftEyeIndices
      [] g = GROUP_RIGHT_EYE -> rightEyeIndices

AllGroups == {GROUP_FACE, GROUP_MOUTH, GROUP_LEFT_EYE, GROUP_RIGHT_EYE}

\* C4: face segmentation is a partition: the triangles read so far are, with
\* their multiplicities, exactly the triangles of the four lists together
\* (each triangle was appended to exactly one list), and the re-ordered index
\* buffer holds as many triangles as the original one.
C4_Partition ==
    /\ Len(faceIndices) + Len(mouthIndices) + Len(leftEyeIndices) + Len(rightEyeIndices)
          = Len(index)
    /\ \A k \in 1 .. TriCount(index) :
          LET t == Tri(index, k)
          IN  Occ(faceIndices, t) + Occ(mouthIndices, t) + Occ(leftEyeIndices, t)
                + Occ(rightEyeIndices, t) = Occ(index, t)
    /\ \A g \in AllGroups : Len(ListOf(g)) % 3 = 0
    /\ (pc = "built" /\ part = "head") =>
          /\ TriCount(newIndices) = TriCount(index)
          /\ Len(newIndices) = Len(index)
          /\ \A k \in 1 .. TriCount(index) :
                Occ(newIndices, Tri(index, k)) = Occ(index, Tri(index, k))

\* a head was built from MaxFaces triangles that went to two different lists
C4_Witness ==
    /\ pc = "built" /\ part = "head"
    /\ TriCount(index) >= 2
    /\ Cardinality({g \in AllGroups : Len(ListOf(g)) > 0}) >= 2

\* number of the three index slots of triangle t that carry a label of vs
Labelled(vs, t) == Cardinality({k \in 1 .. 3 : Includes(vs, t[k])})

\* the group the majority rule gives triangle t
MajorityGroup(t) ==
    IF Labelled(mouthVertexIndices, t) >= 2 THEN GROUP_MOUTH
    ELSE IF Labelled(leftEyeVertexIndices, t) >= 2 THEN GROUP_LEFT_EYE
    ELSE IF Labelled(rightEyeVertexIndices, t) >= 2 THEN GROUP_RIGHT_EYE
    ELSE GROUP_FACE

\* C5: a triangle is in the mouth list iff at least 2 of its 3 vertex indices
\* are mouth-labelled; otherwise in the left-eye list iff at least 2 are
\* left-eye-labelled; otherwise in the right-eye list iff at least 2 are
\* right-eye-labelled; otherwise in the face list.  A triangle with at most 1
\* labelled vertex per region is in the face list.  (Stated of the lists the
\* built head holds; the loop may end after any number of triangles.)
HeadBuilt == pc = "built" /\ part = "head"

C5_MajorityRule ==
    HeadBuilt => \A k \in 1 .. TriCount(index) :
        LET t == Tri(index, k)
            mg == MajorityGroup(t)
        IN  /\ InList(ListOf(mg), t)
            /\ \A g \in AllGroups \ {mg} : ~InList(ListOf(g), t)
            /\ ( /\ Labelled(mouthVertexIndices, t) <= 1
                 /\ Labelled(leftEyeVertexIndices, t) <= 1
                 /\ Labelled(rightEyeVertexIndices, t) <= 1 )
                  => InList(faceIndices, t)

\* a triangle with exactly one mouth-labelled vertex (and no other majority)
\* was put in the face list, and another with two left-eye-labelled vertices
\* in the left-eye list
C5_Witness ==
    /\ HeadBuilt
    /\ \E k \in 1 .. TriCount(faceIndices) :
          Labelled(mouthVertexIndices, Tri(faceIndices, k)) = 1
    /\ \E k \in 1 .. TriCount(leftEyeIndices) :
          Labelled(leftEyeVertexIndices, Tri(leftEyeIndices, k)) = 2

Perms(t) ==
    { <<t[1], t[2], t[3]>>, <<t[1], t[3], t[2]>>, <<t[2], t[1], t[3]>>,
      <<t[2], t[3], t[1]>>, <<t[3], t[1], t[2]>>, <<t[3], t[2], t[1]>> }

GroupsHolding(t) == {g \in AllGroups : InList(ListOf(g), t)}

\* C6: the group of a triangle does not depend on the order of its three
\* vertex indices: the if-chain picks the same group for every permutation,
\* two triangles read that are permutations of each other are in the same
\* list, and a triangle with 2 mouth-labelled and 1 eye-labelled vertex is in
\* the mouth list and in no eye list.
C6_OrderIndependent ==
    HeadBuilt => \A k \in 1 .. TriCount(index) :
        LET t == Tri(index, k)
            held == GroupsHolding(t)
        IN  /\ \A p \in Perms(t) :
                  held = {FaceGroup(mouthVertexIndices, leftEyeVertexIndices,
                                    rightEyeVertexIndices, p[1], p[2], p[3])}
            /\ \A j \in 1 .. TriCount(index) :
                  Tri(index, j) \in Perms(t) => GroupsHolding(Tri(index, j)) = held
            /\ ( /\ Labelled(mouthVertexIndices, t) = 2
                 /\ Labelled(leftEyeVertexIndices, t) + Labelled(rightEyeVertexIndices, t) = 1 )
                  => held = {GROUP_MOUTH}

\* two triangles were read that are different orderings of two mouth-labelled
\* vertices and one eye-labelled vertex, the eye vertex first in one and last
\* in the other
C6_Witness ==
    HeadBuilt /\ \E k, j \in 1 .. TriCount(index) :
        LET t == Tri(index, k)
            s == Tri(index, j)
        IN  /\ s \in Perms(t) /\ s # t
            /\ Cardinality({t[1], t[2], t[3]}) = 3
            /\ Labelled(mouthVertexIndices, t) = 2
            /\ Labelled(leftEyeVertexIndices, t) + Labelled(rightEyeVertexIndices, t) = 1
            /\ ~Includes(mouthVertexIndices, t[1])
            /\ ~Includes(mouthVertexIndices, s[3])
            /\ GroupsHolding(t) = {GROUP_MOUTH}

\* the material of each region
RegionMaterial(g) ==
    CASE g = GROUP_FACE -> "headFaceMaterial"
      [] g = GROUP_MOUTH -> "headMouthMaterial"
      [] g = GROUP_LEFT_EYE -> "headLeftEyeMaterial"
      [] g = GROUP_RIGHT_EYE -> "headRightEyeMaterial"

\* C7: after segmentation the geometry has exactly four groups, in the order
\* face, mouth, left-eye, right-eye with material indices 0, 1, 2, 3; the
\* first starts at 0, each starts where the previous one ends, each count is
\* a multiple of 3, the last ends at the end of the new index buffer, each
\* range holds exactly the indices of its region's list, and material index
\* g is the position of that region's material in the Part's material array.
C7_ContiguousGroups ==
    (pc = "built" /\ part = "head") =>
        /\ Len(groups) = 4
        /\ \A n \in 1 .. 4 :
              /\ groups[n].materialIndex = n - 1
              /\ groups[n].count % 3 = 0
              /\ groups[n].start = (IF n = 1 THEN 0 ELSE groups[n - 1].start + groups[n - 1].count)
              /\ SubSeq(newIndices, groups[n].start + 1, groups[n].start + groups[n].count)
                    = ListOf(groups[n].materialIndex)
              /\ partMaterial[groups[n].materialIndex + 1] = RegionMaterial(groups[n].materialIndex)
        /\ <<groups[1].materialIndex, groups[2].materialIndex, groups[3].materialIndex,
              groups[4].materialIndex>>
              = <<GROUP_FACE, GROUP_MOUTH, GROUP_LEFT_EYE, GROUP_RIGHT_EYE>>
        /\ groups[4].start + groups[4].count = Len(newIndices)
        /\ Len(partMaterial) = 4

\* a head was built whose face group and mouth group are both non-empty, so
\* the mouth group starts at a positive offset
C7_Witness ==
    /\ pc = "built" /\ part = "head"
    /\ Len(groups) = 4
    /\ groups[1].count > 0
    /\ groups[2].count > 0
    /\ groups[2].start > 0

(***************************************************************************)
(* The VRMC_vrm plugin registered with the GLTFExporter                    *)
(***************************************************************************)
MaxExtra == 1      \* nodes the exporter indexes ahead of the bone subtree
MaxMissing == 1    \* bones and materials of the program's scene left out of the exported scene
MaxRuns == 2       \* runs of afterParse on one document

\* Object.keys(TextureKind)
TextureKinds ==
    <<"normal", "aa", "ih", "ou", "ee", "oh", "blinkLeft", "blinkRight">>

\* the position of a kind counted from 1
TextureKindToIndexOneBased(kind) ==
    CHOOSE i \in DOMAIN TextureKinds : TextureKinds[i] = kind

\* Object.fromEntries(TextureKinds.map((k, i) => [k, i]))
TextureKindToIndex(kind) ==
    (CHOOSE i \in DOMAIN TextureKinds : TextureKinds[i] = kind) - 1

\* const boneNames = [...] of afterParse
boneNames ==
    <<"hips", "spine", "chest", "upperChest", "neck", "head",
      "leftUpperLeg", "leftLowerLeg", "leftFoot",
      "rightUpperLeg", "rightLowerLeg", "rightFoot",
      "leftShoulder", "leftUpperArm", "leftLowerArm", "leftHand",
      "rightShoulder", "rightUpperArm", "rightLowerArm", "rightHand">>

\* Names of the nodes indexed ahead of the bone subtree: a Part's group or
\* mesh; "" is an object without a name, "head" is the head Part
ExtraNames == {"", "head"}

\* The materials of the scene in the order the meshes are indexed: the body's
\* unnamed material, the four named head materials, a limb's unnamed material
SceneMaterials ==
    <<"">> \o HeadMaterials \o <<"">>

\* Map.prototype.set
MapSet(map, key, value) ==
    [k \in (DOMAIN map) \cup {key} |-> IF k = key THEN value ELSE map[k]]

\* Map.prototype.get: the value, or undefined
MapGet(map, key) ==
    IF key \in DOMAIN map
        THEN [defined |-> TRUE, value |-> map[key]]
        ELSE [defined |-> FALSE, value |-> 0]

\* writeNode: (obj, _node) => { ... }, the new <<meshToNodeIndex, nodeCount>>
writeNode(name, isMesh) ==
    << IF isMesh THEN MapSet(meshToNodeIndex, name, nodeCount) ELSE meshToNodeIndex,
       nodeCount + 1 >>

\* writeMaterialAsync without the increment of materialCount
writeMaterialAsyncNoCount(name) ==
    << MapSet(materialToIndex, name, materialCount), materialCount >>

\* writeMaterialAsync recording the count after its increment
writeMaterialAsyncCountFirst(name) ==
    << MapSet(materialToIndex, name, materialCount + 1), materialCount + 1 >>

\* writeMaterialAsync: async (material) => { ... }, the new <<materialToIndex, materialCount>>
writeMaterialAsync(name) ==
    << MapSet(materialToIndex, name, materialCount), materialCount + 1 >>

\* The exporter indexes one object of the scene: writeNode is invoked for it
\* and its node definition is pushed onto gltf.nodes
ExportNode(name, isMesh) ==
    /\ gltfNodes' = Append(gltfNodes, name)
    /\ meshToNodeIndex' = writeNode(name, isMesh)[1]
    /\ nodeCount' = writeNode(name, isMesh)[2]
    /\ UNCHANGED <<materialCount, materialToIndex, parserExtensionsUsed, gltfMaterials,
                   gltfExtensionsUsed, gltfExtensions, warnings, exportError,
                   afterParseRuns>>
    /\ UNCHANGED <<pc, skinVars, partMaterial, segVars>>
    /\ UNCHANGED buildVars
    /\ UNCHANGED uiVars

\* A Part group or mesh is indexed
ExportExtraNode(name, isMesh) ==
    /\ pc = "export"
    /\ traversal.bone = 0
    /\ traversal.extra < MaxExtra
    /\ traversal' = [traversal EXCEPT !.extra = @ + 1]
    /\ ExportNode(name, isMesh)

\* The next bone of the skeleton is indexed
ExportBoneNode ==
    /\ pc = "export"
    /\ traversal.bone < Len(boneNames)
    /\ traversal' = [traversal EXCEPT !.bone = @ + 1]
    /\ ExportNode(boneNames[traversal.bone + 1], FALSE)

\* The exported scene lacks the next bone
OmitBoneNode ==
    /\ pc = "export"
    /\ traversal.bone < Len(boneNames)
    /\ traversal.missing < MaxMissing
    /\ traversal' = [traversal EXCEPT !.bone = @ + 1, !.missing = @ + 1]
    /\ UNCHANGED <<pluginVars, docVars, warnings, exportError, afterParseRuns>>
    /\ UNCHANGED <<pc, skinVars, partMaterial, segVars>>
    /\ UNCHANGED buildVars
    /\ UNCHANGED uiVars

\* The next material of the scene is indexed: writeMaterialAsync is invoked
\* for it and its definition is pushed onto gltf.materials
ExportMaterial ==
    /\ pc = "export"
    /\ traversal.bone = Len(boneNames)
    /\ traversal.material < Len(SceneMaterials)
    /\ traversal' = [traversal EXCEPT !.material = @ + 1]
    /\ materialToIndex' = writeMaterialAsync(SceneMaterials[traversal.material + 1])[1]
    /\ materialCount' = writeMaterialAsync(SceneMaterials[traversal.material + 1])[2]
    /\ gltfMaterials' = Append(gltfMaterials, SceneMaterials[traversal.material + 1])
    /\ UNCHANGED <<nodeCount, meshToNodeIndex, parserExtensionsUsed, gltfNodes,
                   gltfExtensionsUsed, gltfExtensions, warnings, exportError,
                   afterParseRuns>>
    /\ UNCHANGED <<pc, skinVars, partMaterial, segVars>>
    /\ UNCHANGED buildVars
    /\ UNCHANGED uiVars

\* The exported scene lacks the next material
OmitMaterial ==
    /\ pc = "export"
    /\ traversal.bone = Len(boneNames)
    /\ traversal.material < Len(SceneMaterials)
    /\ traversal.missing < MaxMissing
    /\ traversal' = [traversal EXCEPT !.material = @ + 1, !.missing = @ + 1]
    /\ UNCHANGED <<pluginVars, docVars, warnings, exportError, afterParseRuns>>
    /\ UNCHANGED <<pc, skinVars, partMaterial, segVars>>
    /\ UNCHANGED buildVars
    /\ UNCHANGED uiVars

RECURSIVE NodeNameToIndexFrom(_, _, _, _)
\* gltf.nodes.forEach((node, index) => { if (node.name) map.set(node.name, index + shift) })
NodeNameToIndexFrom(nodes, at, shift, map) ==
    IF at = Len(nodes)
        THEN map
        ELSE NodeNameToIndexFrom(nodes, at + 1, shift,
                 IF nodes[at + 1] # ""
                     THEN MapSet(map, nodes[at + 1], at + shift)
                     ELSE map)

\* nodeNameToIndex with one-based positions instead of array indices
NodeNameToIndexOneBased(nodes) ==
    NodeNameToIndexFrom(nodes, 0, 1, <<>>)

\* nodeNameToIndex keeping the first index of a name instead of the last
NodeNameToIndexFirstWins(nodes) ==
    [n \in {nodes[i] : i \in DOMAIN nodes} \ {""} |->
        (CHOOSE i \in DOMAIN nodes :
            /\ nodes[i] = n
            /\ \A j \in DOMAIN nodes : nodes[j] = n => i <= j) - 1]

\* const nodeNameToIndex of afterParse
NodeNameToIndex(nodes) ==
    NodeNameToIndexFrom(nodes, 0, 0, <<>>)

RECURSIVE HumanBonesFrom(_, _, _, _)
\* boneNames.forEach((boneName) => { ... }) from the i-th name on: the pair
\* <<humanBones, console.warn calls>>
HumanBonesFrom(i, nodeNameToIndex, humanBones, warned) ==
    IF i > Len(boneNames)
        THEN <<humanBones, warned>>
        ELSE LET boneName == boneNames[i]
                 nodeIndex == MapGet(nodeNameToIndex, boneName)
             IN  IF nodeIndex.defined
                     THEN HumanBonesFrom(i + 1, nodeNameToIndex,
                              MapSet(humanBones, boneName, [node |-> nodeIndex.value]),
                              warned)
                     ELSE HumanBonesFrom(i + 1, nodeNameToIndex, humanBones,
                              Append(warned, boneName))

\* One entry of textureTransformBinds
TextureTransformBind(materialName, kind) ==
    [ material |-> MapGet(materialToIndex, materialName),
      offset   |-> << I(0),
                      Mul(I(TextureKindToIndex(kind)), Div(I(1), I(Len(TextureKinds)))) >>,
      scale    |-> << I(1), I(1) >> ]

\* One entry of expressions.preset
Expression(binds) ==
    [ isBinary       |-> TRUE,
      overrideBlink  |-> "none",
      overrideLookAt |-> "none",
      overrideMouth  |-> "none",
      textureTransformBinds |-> binds ]

\* expressions.preset of the VRMC_vrm block
ExpressionPreset ==
    [ aa |-> Expression(<< TextureTransformBind(HeadMaterials[2], "aa") >>),
      ih |-> Expression(<< TextureTransformBind(HeadMaterials[2], "ih") >>),
      ou |-> Expression(<< TextureTransformBind(HeadMaterials[2], "ou") >>),
      ee |-> Expression(<< TextureTransformBind(HeadMaterials[2], "ee") >>),
      oh |-> Expression(<< TextureTransformBind(HeadMaterials[2], "oh") >>),
      blink |-> Expression(<< TextureTransformBind(HeadMaterials[3], "blinkLeft"),
                              TextureTransformBind(HeadMaterials[4], "blinkRight") >>),
      blinkLeft  |-> Expression(<< TextureTransformBind(HeadMaterials[3], "blinkLeft") >>),
      blinkRight |-> Expression(<< TextureTransformBind(HeadMaterials[4], "blinkRight") >>) ]

\* afterParse: (_input) => { ... }.  The constant specVersion and meta fields
\* of the block are left out.
afterParse ==
    /\ pc = "export"
    /\ traversal.material = Len(SceneMaterials)
    /\ afterParseRuns < MaxRuns
    /\ parserExtensionsUsed' = parserExtensionsUsed \cup {"VRMC_vrm"}
    /\ LET found == HumanBonesFrom(1, NodeNameToIndex(gltfNodes), <<>>, warnings)
       IN  /\ warnings' = found[2]
           /\ gltfExtensions' = [ defined    |-> TRUE,
                                  humanBones |-> found[1],
                                  preset     |-> ExpressionPreset ]
    /\ gltfExtensionsUsed' =
           [ defined |-> TRUE,
             list    |-> Append(IF gltfExtensionsUsed.defined
                                    THEN gltfExtensionsUsed.list
                                    ELSE <<>>,
                                "VRMC_vrm") ]
    /\ afterParseRuns' = afterParseRuns + 1
    /\ UNCHANGED <<pluginVars, gltfNodes, gltfMaterials, exportError, traversal>>
    /\ UNCHANGED <<pc, skinVars, partMaterial, segVars>>
    /\ UNCHANGED buildVars
    /\ UNCHANGED uiVars

(***************************************************************************)
(* Specification of one export pass.  The exported scene is the program's  *)
(* scene with up to MaxMissing bones or materials left out and up to       *)
(* MaxExtra Part nodes ahead of the bone subtree.  The hooks write         *)
(* disjoint state, so the nodes are indexed before the materials; then     *)
(* afterParse runs, once for each registration of the plugin.              *)
(***************************************************************************)
InitExport ==
    /\ pc = "export"
    /\ bones = <<>>
    /\ boneChildren = <<>>
    /\ boneIdx = <<>>
    /\ part = ""
    /\ position = <<>>
    /\ skinIndices = <<>>
    /\ skinWeights = <<>>
    /\ probe = NoProbe
    /\ partMaterial = <<>>
    /\ InitSegIdle
    /\ InitExportIdle
    /\ InitBuildIdle
    /\ InitUiIdle

NextExport ==
    \/ \E name \in ExtraNames, isMesh \in BOOLEAN : ExportExtraNode(name, isMesh)
    \/ ExportBoneNode
    \/ OmitBoneNode
    \/ ExportMaterial
    \/ OmitMaterial
    \/ afterParse

SpecExport == InitExport /\ [][NextExport]_vars

(***************************************************************************)
(* Claims about the export plugin                                          *)
(***************************************************************************)
\* The canonical bone names no node of the document carries
MissingBones ==
    {boneNames[i] : i \in DOMAIN boneNames} \ {gltfNodes[i] : i \in DOMAIN gltfNodes}

\* C8: once afterParse has run, no error is thrown, the block is written and
\* every humanBones entry holds the index of a node carrying the entry's name;
\* when the node list carries all 20 canonical names the map has 20 entries
\* and nothing is warned; when exactly one canonical name is missing the map
\* has 19 entries and each run logs exactly one warning, for that name.
C8_RigDescriptorComplete ==
    afterParseRuns >= 1 =>
        LET humanBones == gltfExtensions.humanBones
        IN  /\ exportError = "none"
            /\ gltfExtensions.defined
            /\ \A b \in DOMAIN humanBones :
                   /\ humanBones[b].node \in 0..(Len(gltfNodes) - 1)
                   /\ gltfNodes[humanBones[b].node + 1] = b
            /\ MissingBones = {} =>
                   /\ Cardinality(DOMAIN humanBones) = 20
                   /\ warnings = <<>>
            /\ Cardinality(MissingBones) = 1 =>
                   /\ Cardinality(DOMAIN humanBones) = 19
                   /\ Len(warnings) = afterParseRuns
                   /\ \A i \in DOMAIN warnings : warnings[i] \in MissingBones

\* afterParse has run once on a node list that lacks one canonical name but
\* carries "head" twice: 19 entries, one warning
C8_Witness ==
    /\ afterParseRuns = 1
    /\ Cardinality(MissingBones) = 1
    /\ Len(gltfNodes) = Len(boneNames)
    /\ gltfNodes[1] = "head"
    /\ Cardinality(DOMAIN gltfExtensions.humanBones) = 19
    /\ Len(warnings) = 1

\* Occurrences of an identifier in a list
Count(list, id) ==
    Cardinality({i \in DOMAIN list : list[i] = id})

\* C9: after any number n >= 1 of afterParse runs on the same document,
\* extensionsUsed holds "VRMC_vrm" exactly once.
C9_ExtensionsUsedOnce ==
    afterParseRuns >= 1 =>
        /\ gltfExtensionsUsed.defined
        /\ Count(gltfExtensionsUsed.list, "VRMC_vrm") = 1

\* The materials the expression bindings name
BoundMaterials ==
    {HeadMaterials[2], HeadMaterials[3], HeadMaterials[4]}

\* Every textureTransformBinds entry of the written block
EmittedBinds ==
    IF gltfExtensions.defined
        THEN UNION { {gltfExtensions.preset[p].textureTransformBinds[i] :
                          i \in DOMAIN gltfExtensions.preset[p].textureTransformBinds} :
                     p \in DOMAIN gltfExtensions.preset }
        ELSE {}

\* C10: once afterParse has run with a bound material that writeMaterialAsync
\* never recorded, the pass has failed with MissingMaterialBindingError and
\* the block is not in the document; no emitted bind has an undefined
\* material index.
C10_MissingMaterialFails ==
    /\ (afterParseRuns >= 1 /\ ~(BoundMaterials \subseteq DOMAIN materialToIndex)) =>
           /\ exportError = "MissingMaterialBindingError"
           /\ ~gltfExtensions.defined
    /\ \A bind \in EmittedBinds : bind.material.defined

(***************************************************************************)
(* Specification of addBone: a caller adds bones with names of its choice, *)
(* names already used included.                                            *)
(***************************************************************************)
MaxBones == 4      \* addBone calls of the caller

BoneNameChoice == {"head", "hips", "spine"}

\* const idx = addBone(bone) in a caller: the call never throws
AddBoneCall(bone) ==
    /\ pc = "bones"
    /\ Len(bones) < MaxBones
    /\ calls' = Append(calls, [bone |-> bone, idx |-> addBoneIdx(bones), error |-> "none"])
    /\ bones' = addBone(bones, bone)
    /\ UNCHANGED <<pc, boneChildren, boneIdx, part, position, skinIndices, skinWeights, probe>>
    /\ UNCHANGED <<partMaterial, segVars, expVars>>
    /\ UNCHANGED <<step, parts, objChildren, objName, meshes, skeleton>>
    /\ UNCHANGED uiVars

InitBones ==
    /\ pc = "bones"
    /\ bones = <<>>
    /\ boneChildren = <<>>
    /\ boneIdx = <<>>
    /\ part = ""
    /\ position = <<>>
    /\ skinIndices = <<>>
    /\ skinWeights = <<>>
    /\ probe = NoProbe
    /\ partMaterial = <<>>
    /\ InitSegIdle
    /\ InitExportIdle
    /\ InitBuildIdle
    /\ InitUiIdle

NextBones ==
    \E bone \in BoneNameChoice : AddBoneCall(bone)

SpecBones == InitBones /\ [][NextBones]_vars

\* C11: the k-th addBone call (from 0) returned k, the bone list holds one
\* bone per call, and at every later time position i of the list holds the
\* bone of the call that returned i.
C11_AddBoneInsertionOrder ==
    /\ Len(bones) = Len(calls)
    /\ \A k \in DOMAIN calls :
           /\ calls[k].idx = k - 1
           /\ bones[calls[k].idx + 1] = calls[k].bone

\* three calls, two of them with the same name
C11_Witness ==
    /\ Len(calls) = 3
    /\ calls[3].idx = 2
    /\ bones[1] = bones[3]
    /\ bones[1] # bones[2]

\* C12: a call with the name of a bone added before fails with
\* DuplicateBoneError and adds nothing, so no name is in the bone list twice.
C12_DuplicateBoneRejected ==
    /\ \A k \in DOMAIN calls :
           (\E j \in 1..(k - 1) : calls[j].bone = calls[k].bone)
               => calls[k].error = "DuplicateBoneError"
    /\ \A i, j \in DOMAIN bones : i # j => bones[i] # bones[j]

(***************************************************************************)
(* The build script: the create functions run to completion, the Parts and *)
(* bones are composed, the skeleton is built and the model is assembled.   *)
(***************************************************************************)
\* The statements of the script, in order
Script ==
    << [op |-> "createHead", a |-> "",      b |-> ""],
       [op |-> "createArm",  a |-> "left",  b |-> ""],
       [op |-> "createArm",  a |-> "right", b |-> ""],
       [op |-> "createHand", a |-> "left",  b |-> ""],
       [op |-> "createHand", a |-> "right", b |-> ""],
       [op |-> "createBody", a |-> "",      b |-> ""],
       [op |-> "partAdd", a |-> "body",       b |-> "head"],
       [op |-> "boneAdd", a |-> "neck",       b |-> "head"],
       [op |-> "boneAdd", a |-> "upperChest", b |-> "leftShoulder"],
       [op |-> "boneAdd", a |-> "upperChest", b |-> "rightShoulder"],
       [op |-> "partAdd", a |-> "body",       b |-> "leftArm"],
       [op |-> "partAdd", a |-> "body",       b |-> "rightArm"],
       [op |-> "boneAdd", a |-> "leftLowerArm",  b |-> "leftHand"],
       [op |-> "boneAdd", a |-> "rightLowerArm", b |-> "rightHand"],
       [op |-> "partAdd", a |-> "leftArm",    b |-> "leftHand"],
       [op |-> "partAdd", a |-> "rightArm",   b |-> "rightHand"],
       [op |-> "createLeg", a |-> "left",   b |-> ""],
       [op |-> "createLeg", a |-> "right",  b |-> ""],
       [op |-> "boneAdd", a |-> "hips",       b |-> "leftUpperLeg"],
       [op |-> "boneAdd", a |-> "hips",       b |-> "rightUpperLeg"],
       [op |-> "partAdd", a |-> "body",       b |-> "leftLeg"],
       [op |-> "partAdd", a |-> "body",       b |-> "rightLeg"],
       [op |-> "createFoot", a |-> "left",  b |-> ""],
       [op |-> "createFoot", a |-> "right", b |-> ""],
       [op |-> "boneAdd", a |-> "leftLowerLeg",  b |-> "leftFoot"],
       [op |-> "boneAdd", a |-> "rightLowerLeg", b |-> "rightFoot"],
       [op |-> "partAdd", a |-> "leftLeg",    b |-> "leftFoot"],
       [op |-> "partAdd", a |-> "rightLeg",   b |-> "rightFoot"],
       [op |-> "skeleton",  a |-> "",     b |-> ""],
       [op |-> "build",     a |-> "body", b |-> ""],
       [op |-> "attach",    a |-> "body", b |-> "hips"],
       [op |-> "sceneAdd",  a |-> "Group",      b |-> "body"],
       [op |-> "sceneAdd",  a |-> "GridHelper", b |-> ""] >>

\* the statement the script is at
AtOp(op) ==
    /\ pc = "script"
    /\ step < Len(Script)
    /\ Script[step + 1].op = op

\* new Part(name, geometry, ...): the Part with its geometry's skinIndex attribute
NewPart(ps, name, skinIndex) ==
    [q \in DOMAIN ps \cup {name} |->
        IF q = name THEN [children |-> <<>>, skinIndex |-> skinIndex] ELSE ps[q]]

\* the same loop pushing the index after the bone's
OneBoneSkinShifted(n, idx) == [v \in 1..n |-> <<idx + 1, 0, 0, 0>>]

\* the loop "skinIndices.push(boneIdx, 0, 0, 0)" over n vertices
OneBoneSkin(n, idx) == [v \in 1..n |-> <<idx, 0, 0, 0>>]

\* the loop "skinIndices.push(idxA, idxB, 0, 0)" over n vertices
TwoBoneSkin(n, idxA, idxB) == [v \in 1..n |-> <<idxA, idxB, 0, 0>>]

\* what a statement of the script leaves alone besides the bones and Parts
ScriptFrame ==
    /\ step' = step + 1
    /\ UNCHANGED <<pc, boneIdx, part, position, skinIndices, skinWeights, probe>>
    /\ UNCHANGED <<partMaterial, segVars, expVars, calls>>
    /\ UNCHANGED uiVars

\* const head = createHead()
ScriptCreateHead ==
    /\ AtOp("createHead")
    /\ bones' = addBone(bones, "head")
    /\ boneChildren' = NewBone(boneChildren, "head")
    /\ parts' = NewPart(parts, "head", OneBoneSkin(HeadVerts, addBoneIdx(bones)))
    /\ ScriptFrame
    /\ UNCHANGED <<objChildren, objName, meshes, skeleton>>

\* const armL = createArm("left"), const armR = createArm("right")
ScriptCreateArm ==
    /\ AtOp("createArm")
    /\ LET namePrefix == Script[step + 1].a
           shoulder == namePrefix \o "Shoulder"
           upper == namePrefix \o "UpperArm"
           lower == namePrefix \o "LowerArm"
           b1 == addBone(bones, shoulder)
           b2 == addBone(b1, upper)
           b3 == addBone(b2, lower)
       IN  /\ bones' = b3
           /\ boneChildren' =
                 ObjAdd(ObjAdd(NewBone(boneChildren, shoulder), shoulder, upper), upper, lower)
           /\ parts' = NewPart(parts, namePrefix \o "Arm",
                               TwoBoneSkin(MaxVerts, addBoneIdx(b1), addBoneIdx(b2)))
    /\ ScriptFrame
    /\ UNCHANGED <<objChildren, objName, meshes, skeleton>>

\* const handL = createHand("left"), const handR = createHand("right")
ScriptCreateHand ==
    /\ AtOp("createHand")
    /\ LET name == Script[step + 1].a \o "Hand"
       IN  /\ bones' = addBone(bones, name)
           /\ boneChildren' = NewBone(boneChildren, name)
           /\ parts' = NewPart(parts, name, OneBoneSkin(MaxVerts, addBoneIdx(bones)))
    /\ ScriptFrame
    /\ UNCHANGED <<objChildren, objName, meshes, skeleton>>

\* const body = createBody(); ys[v] is position.getY(v) of the body geometry
ScriptCreateBody(ys) ==
    /\ AtOp("createBody")
    /\ LET b1 == addBone(bones, "hips")
           b2 == addBone(b1, "spine")
           b3 == addBone(b2, "chest")
           b4 == addBone(b3, "upperChest")
           b5 == addBone(b4, "neck")
           idx == <<addBoneIdx(bones), addBoneIdx(b1), addBoneIdx(b2),
                    addBoneIdx(b3), addBoneIdx(b4)>>
       IN  /\ bones' = b5
           /\ boneChildren' =
                 ObjAdd(ObjAdd(ObjAdd(ObjAdd(NewBone(boneChildren, "hips"),
                    "hips", "spine"), "spine", "chest"), "chest", "upperChest"),
                    "upperChest", "neck")
           /\ parts' = NewPart(parts, "body",
                  [v \in 1..MaxVerts |->
                      <<idx[BodySegment(I(ys[v]))], idx[BodySegment(I(ys[v])) + 1], 0, 0>>])
    /\ ScriptFrame
    /\ UNCHANGED <<objChildren, objName, meshes, skeleton>>

\* const legL = createLeg("left"), const legR = createLeg("right")
ScriptCreateLeg ==
    /\ AtOp("createLeg")
    /\ LET namePrefix == Script[step + 1].a
           upperLeg == namePrefix \o "UpperLeg"
           lowerLeg == namePrefix \o "LowerLeg"
           b1 == addBone(bones, upperLeg)
           b2 == addBone(b1, lowerLeg)
       IN  /\ bones' = b2
           /\ boneChildren' = ObjAdd(NewBone(boneChildren, upperLeg), upperLeg, lowerLeg)
           /\ parts' = NewPart(parts, namePrefix \o "Leg",
                               TwoBoneSkin(MaxVerts, addBoneIdx(bones), addBoneIdx(b1)))
    /\ ScriptFrame
    /\ UNCHANGED <<objChildren, objName, meshes, skeleton>>

\* createFoot naming its bone after the toes
ScriptCreateFootToes ==
    /\ AtOp("createFoot")
    /\ LET name == Script[step + 1].a \o "Foot"
           boneName == Script[step + 1].a \o "Toes"
       IN  /\ bones' = addBone(bones, boneName)
           /\ boneChildren' = NewBone(boneChildren, boneName)
           /\ parts' = NewPart(parts, name, OneBoneSkin(MaxVerts, addBoneIdx(bones)))
    /\ ScriptFrame
    /\ UNCHANGED <<objChildren, objName, meshes, skeleton>>

\* const footL = createFoot("left"), const footR = createFoot("right")
ScriptCreateFoot ==
    /\ AtOp("createFoot")
    /\ LET name == Script[step + 1].a \o "Foot"
       IN  /\ bones' = addBone(bones, name)
           /\ boneChildren' = NewBone(boneChildren, name)
           /\ parts' = NewPart(parts, name, OneBoneSkin(MaxVerts, addBoneIdx(bones)))
    /\ ScriptFrame
    /\ UNCHANGED <<objChildren, objName, meshes, skeleton>>

\* Part.add(part): body.part.add(head.part), ...
ScriptPartAdd ==
    /\ AtOp("partAdd")
    /\ parts' = [parts EXCEPT ![Script[step + 1].a].children = Append(@, Script[step + 1].b)]
    /\ ScriptFrame
    /\ UNCHANGED <<bones, boneChildren, objChildren, objName, meshes, skeleton>>

\* the bone statements with receiver and argument exchanged
ScriptBoneAddReversed ==
    /\ AtOp("boneAdd")
    /\ boneChildren' = ObjAdd(boneChildren, Script[step + 1].b, Script[step + 1].a)
    /\ ScriptFrame
    /\ UNCHANGED <<bones, parts, objChildren, objName, meshes, skeleton>>

\* Object3D.add on bones: body.neckBone.add(head.bone), ...
ScriptBoneAdd ==
    /\ AtOp("boneAdd")
    /\ boneChildren' = ObjAdd(boneChildren, Script[step + 1].a, Script[step + 1].b)
    /\ ScriptFrame
    /\ UNCHANGED <<bones, parts, objChildren, objName, meshes, skeleton>>

\* const skeleton = new THREE.Skeleton(bones)
ScriptSkeleton ==
    /\ AtOp("skeleton")
    /\ skeleton' = [built |-> TRUE, bones |-> bones, bound |-> <<>>]
    /\ ScriptFrame
    /\ UNCHANGED <<bones, boneChildren, parts, objChildren, objName, meshes>>

\* The objects of the scene graph: <<class, name of the Part or bone it was made for>>
GroupOf(p) == <<"Group", p>>
MeshOf(p) == <<"Mesh", p>>
BoneOf(b) == <<"Bone", b>>
TheScene == <<"Scene", "">>

\* obj.name = name
SetName(names, obj, name) ==
    [o \in DOMAIN names \cup {obj} |-> IF o = obj THEN name ELSE names[o]]

RECURSIVE PartBuild(_, _)
RECURSIVE PartBuildChildren(_, _, _)
\* Part.build(meshes) of Part p; st is [children, name, meshes], the objects
\* built so far and the meshes array
PartBuild(p, st) ==
    LET group == GroupOf(p)
        mesh == MeshOf(p)
        made == [ meshes   |-> Append(st.meshes, mesh),
                  name     |-> SetName(SetName(st.name, mesh, p), group, p),
                  children |-> ObjAdd(st.children, group, mesh) ]
    IN  PartBuildChildren(p, 1, made)

\* for (const child of this.children) group.add(child.build(meshes)), from the i-th child on
PartBuildChildren(p, i, st) ==
    IF i > Len(parts[p].children)
        THEN st
        ELSE LET child == parts[p].children[i]
                 built == PartBuild(child, st)
             IN  PartBuildChildren(p, i + 1,
                     [built EXCEPT !.children = ObjAdd(@, GroupOf(p), GroupOf(child))])

\* const model = body.part.build(meshes)
ScriptBuild ==
    /\ AtOp("build")
    /\ LET built == PartBuild(Script[step + 1].a,
                        [children |-> objChildren, name |-> objName, meshes |-> meshes])
       IN  /\ objChildren' = built.children
           /\ objName' = built.name
           /\ meshes' = built.meshes
    /\ ScriptFrame
    /\ UNCHANGED <<bones, boneChildren, parts, skeleton>>

\* the same block with the root bone added to the root mesh
ScriptAttachToMesh ==
    /\ AtOp("attach")
    /\ objChildren' =
           ObjAdd(ObjAdd(objChildren, MeshOf(Script[step + 1].a), BoneOf(Script[step + 1].b)),
                  TheScene, <<"SkeletonHelper", "">>)
    /\ skeleton' = [skeleton EXCEPT !.bound = meshes]
    /\ ScriptFrame
    /\ UNCHANGED <<bones, boneChildren, parts, objName, meshes>>

\* if (enableBone) { model.add(body.hipsBone); for (const m of meshes) m.bind(skeleton);
\*                   scene.add(new THREE.SkeletonHelper(model)) }
ScriptAttach ==
    /\ AtOp("attach")
    /\ objChildren' =
           ObjAdd(ObjAdd(objChildren, GroupOf(Script[step + 1].a), BoneOf(Script[step + 1].b)),
                  TheScene, <<"SkeletonHelper", "">>)
    /\ skeleton' = [skeleton EXCEPT !.bound = meshes]
    /\ ScriptFrame
    /\ UNCHANGED <<bones, boneChildren, parts, objName, meshes>>

\* scene.add(model), scene.add(new THREE.GridHelper(10))
ScriptSceneAdd ==
    /\ AtOp("sceneAdd")
    /\ objChildren' = ObjAdd(objChildren, TheScene, <<Script[step + 1].a, Script[step + 1].b>>)
    /\ ScriptFrame
    /\ UNCHANGED <<bones, boneChildren, parts, objName, meshes, skeleton>>

\* Object3D.name of an object of the scene graph
NameOf(o) ==
    IF o[1] = "Bone" THEN o[2]
    ELSE IF o \in DOMAIN objName THEN objName[o] ELSE ""

\* Object3D.children of an object of the scene graph, in order
ChildSeq(o) ==
    IF o[1] = "Bone"
        THEN IF o[2] \in DOMAIN boneChildren
                 THEN [i \in DOMAIN boneChildren[o[2]] |-> BoneOf(boneChildren[o[2]][i])]
                 ELSE <<>>
        ELSE IF o \in DOMAIN objChildren THEN objChildren[o] ELSE <<>>

\* The orders in which an exporter that walks the children of a parent in
\* child order can index the nodes: a parent ahead of its children or after
\* them
Orders == {"pre", "post"}

RECURSIVE ProcessNode(_, _), ProcessChildren(_, _, _)
\* the objects of the subtree of o in the order the exporter indexes them
ProcessNode(o, order) ==
    LET below == ProcessChildren(ChildSeq(o), 1, order)
    IN  IF order = "pre" THEN <<o>> \o below ELSE below \o <<o>>

\* the same for the children of one parent from the i-th on
ProcessChildren(children, i, order) ==
    IF i > Len(children)
        THEN <<>>
        ELSE ProcessNode(children[i], order) \o ProcessChildren(children, i + 1, order)

\* exporter.parse(model, ...): the export pass of the model starts; the
\* exporter indexes the nodes in the given order
StartExport(order) ==
    /\ pc = "script"
    /\ step = Len(Script)
    /\ pc' = "export"
    /\ traversal' = [extra |-> 0, bone |-> 0, missing |-> 0, material |-> 0, order |-> order]
    /\ UNCHANGED <<pluginVars, docVars, warnings, exportError, afterParseRuns>>
    /\ UNCHANGED <<skinVars, partMaterial, segVars>>
    /\ UNCHANGED buildVars
    /\ UNCHANGED uiVars

\* the nodes of the model in the order of the running pass
SceneNodes == ProcessNode(GroupOf("body"), traversal.order)

\* the next object of the model is indexed: writeNode is invoked for it and
\* its node is pushed onto gltf.nodes
ExportSceneNode ==
    /\ pc = "export"
    /\ "order" \in DOMAIN traversal
    /\ Len(gltfNodes) < Len(SceneNodes)
    /\ LET o == SceneNodes[Len(gltfNodes) + 1]
       IN  /\ ExportNode(NameOf(o), o[1] = "Mesh")
           /\ traversal' = IF o[1] = "Bone"
                               THEN [traversal EXCEPT !.bone = @ + 1]
                               ELSE [traversal EXCEPT !.extra = @ + 1]

\* afterParse of the pass of the model: every node is indexed
ScriptAfterParse ==
    /\ "order" \in DOMAIN traversal
    /\ Len(gltfNodes) = Len(SceneNodes)
    /\ afterParse

(***************************************************************************)
(* Specification of the build script and of the export pass that follows   *)
(* it.  The vertex coordinates of the body geometry are drawn from the     *)
(* grid around the blend edges; the other geometries have MaxVerts (the    *)
(* head HeadVerts) vertices.  The exporter indexes the nodes of the model  *)
(* in one of the Orders, then the materials, then runs afterParse.         *)
(***************************************************************************)
InitScript ==
    /\ pc = "script"
    /\ bones = <<>>
    /\ boneChildren = <<>>
    /\ boneIdx = <<>>
    /\ part = ""
    /\ position = <<>>
    /\ skinIndices = <<>>
    /\ skinWeights = <<>>
    /\ probe = NoProbe
    /\ partMaterial = <<>>
    /\ InitSegIdle
    /\ InitExportIdle
    /\ InitBuildIdle
    /\ InitUiIdle

NextScript ==
    \/ ScriptCreateHead
    \/ ScriptCreateArm
    \/ ScriptCreateHand
    \/ \E ys \in [1..MaxVerts -> BodyGrid] : ScriptCreateBody(ys)
    \/ ScriptCreateLeg
    \/ ScriptCreateFoot
    \/ ScriptPartAdd
    \/ ScriptBoneAdd
    \/ ScriptSkeleton
    \/ ScriptBuild
    \/ ScriptAttach
    \/ ScriptSceneAdd
    \/ \E order \in Orders : StartExport(order)
    \/ ExportSceneNode
    \/ ExportMaterial
    \/ ScriptAfterParse

SpecScript == InitScript /\ [][NextScript]_vars

(***************************************************************************)
(* Claims about the build script                                           *)
(***************************************************************************)
\* The children of an object of the scene graph, as a set: a bone's children
\* are bones, a Group's or Mesh's are the objects added to it
Kids(o) ==
    IF o[1] = "Bone"
        THEN IF o[2] \in DOMAIN boneChildren
                 THEN {BoneOf(boneChildren[o[2]][i]) : i \in DOMAIN boneChildren[o[2]]}
                 ELSE {}
        ELSE IF o \in DOMAIN objChildren
                 THEN {objChildren[o][i] : i \in DOMAIN objChildren[o]}
                 ELSE {}

RECURSIVE ReachFrom(_, _)
\* the objects reachable from the frontier, added to those already seen
ReachFrom(frontier, seen) ==
    IF frontier = {}
        THEN seen
        ELSE LET next == (UNION {Kids(o) : o \in frontier}) \ seen
             IN  ReachFrom(next, seen \cup next)

\* an object and its descendants
Subtree(o) == ReachFrom({o}, {o})

\* the model is composed: the if (enableBone) block has run
Composed == step >= Len(Script) - 2

\* the root Part's group (const model)
Model == GroupOf("body")

\* C13: in the composed model every Part's group carries the Part's name and
\* no two nodes (groups, meshes, bones) carry the same name.
C13_UniqueNodeNames ==
    Composed =>
        /\ \A p \in DOMAIN parts : NameOf(GroupOf(p)) = p
        /\ \A o1, o2 \in Subtree(Model) : o1 # o2 => NameOf(o1) # NameOf(o2)

\* C14: when the skeleton has been built, all four slots of every vertex of
\* every Part's skinIndex attribute are positions of the skeleton's bone list.
C14_SkinIndicesValid ==
    skeleton.built =>
        \A p \in DOMAIN parts : \A v \in DOMAIN parts[p].skinIndex : \A slot \in 1..4 :
            parts[p].skinIndex[v][slot] \in 0..(Len(skeleton.bones) - 1)

\* the skeleton is built over 20 bones; the last foot refers to the last bone
\* and a body vertex to the neck
C14_Witness ==
    /\ skeleton.built
    /\ Len(skeleton.bones) = 20
    /\ DOMAIN parts = {"head", "body", "leftArm", "rightArm", "leftHand", "rightHand",
                       "leftLeg", "rightLeg", "leftFoot", "rightFoot"}
    /\ parts["rightFoot"].skinIndex[1] = <<19, 0, 0, 0>>
    /\ parts["body"].skinIndex[1][2] = 13

\* the places where an object is a child: <<parent, position>>
ChildSlots(o) ==
    LET owners == {BoneOf(b) : b \in DOMAIN boneChildren} \cup DOMAIN objChildren
        kidsSeq(q) == IF q[1] = "Bone" /\ q[2] \in DOMAIN boneChildren
                          THEN [i \in DOMAIN boneChildren[q[2]] |-> BoneOf(boneChildren[q[2]][i])]
                          ELSE IF q \in DOMAIN objChildren THEN objChildren[q] ELSE <<>>
    IN  UNION { {<<q, i>> : i \in {j \in DOMAIN kidsSeq(q) : kidsSeq(q)[j] = o}} : q \in owners }

\* C15: in the composed model the hips bone is a child exactly once, of the
\* root Part's group, next to the root mesh and the child Parts' groups, and
\* every bone of the bone list is the hips bone or a descendant of it.
C15_RootBoneAttachedOnce ==
    Composed =>
        /\ Cardinality(ChildSlots(BoneOf("hips"))) = 1
        /\ \E i \in DOMAIN objChildren[Model] : objChildren[Model][i] = BoneOf("hips")
        /\ MeshOf("body") \in Kids(Model)
        /\ \A c \in DOMAIN parts["body"].children :
               GroupOf(parts["body"].children[c]) \in Kids(Model)
        /\ \A i \in DOMAIN bones : BoneOf(bones[i]) \in Subtree(BoneOf("hips"))

\* the script has ended: the root group holds its mesh, five child groups and
\* the hips bone, in this order
C15_Witness ==
    /\ step = Len(Script)
    /\ Len(bones) = 20
    /\ Len(objChildren[Model]) = 7
    /\ objChildren[Model][1] = MeshOf("body")
    /\ objChildren[Model][7] = BoneOf("hips")
    /\ Model \in Kids(TheScene)

\* C16: once the skeleton is built the bones form one tree rooted at hips:
\* hips is no bone's child, every other bone of the list is a child exactly
\* once, and every bone of the list descends from hips.
C16_SingleRootedTree ==
    skeleton.built =>
        LET listed == {bones[i] : i \in DOMAIN bones}
            boneSlots(b) == {s \in ChildSlots(BoneOf(b)) : s[1][1] = "Bone"}
        IN  /\ "hips" \in listed
            /\ boneSlots("hips") = {}
            /\ \A b \in listed \ {"hips"} : Cardinality(boneSlots(b)) = 1
            /\ {BoneOf(b) : b \in listed} = Subtree(BoneOf("hips"))

\* the skeleton is built over the 20 bones, the legs hanging from the hips
C16_Witness ==
    /\ skeleton.built
    /\ Len(bones) = 20
    /\ boneChildren["hips"] = <<"spine", "leftUpperLeg", "rightUpperLeg">>
    /\ boneChildren["leftLowerLeg"] = <<"leftFoot">>

(***************************************************************************)
(* Further claims about the export plugin                                  *)
(***************************************************************************)
\* the atlas slots each preset binds, in the order of its binds
PresetSlots ==
    [ aa |-> <<1>>, ih |-> <<2>>, ou |-> <<3>>, ee |-> <<4>>, oh |-> <<5>>,
      blink |-> <<6, 7>>, blinkLeft |-> <<6>>, blinkRight |-> <<7>> ]

\* C17: in the written block every preset binds its slots k with offset
\* (0, k/8) and scale (1, 1), 8 being the number of declared texture kinds:
\* aa..oh the slots 1..5, blinkLeft 6, blinkRight 7, blink 6 on the left-eye
\* material and 7 on the right-eye material; every offset v is in [0, 1).
C17_BindOffsets ==
    gltfExtensions.defined =>
        /\ Len(TextureKinds) = 8
        /\ DOMAIN gltfExtensions.preset = DOMAIN PresetSlots
        /\ \A p \in DOMAIN PresetSlots :
               LET binds == gltfExtensions.preset[p].textureTransformBinds
               IN  /\ Len(binds) = Len(PresetSlots[p])
                   /\ \A i \in DOMAIN binds :
                          /\ binds[i].offset = <<I(0), Num(PresetSlots[p][i], 8)>>
                          /\ binds[i].scale = <<I(1), I(1)>>
                          /\ TextureKinds[PresetSlots[p][i] + 1] =
                                 (IF p = "blink" THEN <<"blinkLeft", "blinkRight">>[i] ELSE p)
                          /\ Leq(I(0), binds[i].offset[2])
                          /\ Less(binds[i].offset[2], I(1))
        /\ LET blink == gltfExtensions.preset["blink"].textureTransformBinds
           IN  /\ blink[1].material = MapGet(materialToIndex, HeadMaterials[3])
               /\ blink[2].material = MapGet(materialToIndex, HeadMaterials[4])

\* afterParse has run with every head material indexed: blinkRight binds the
\* last slot, 7/8
C17_Witness ==
    /\ afterParseRuns = 1
    /\ gltfExtensions.defined
    /\ BoundMaterials \subseteq DOMAIN materialToIndex
    /\ gltfExtensions.preset["blinkRight"].textureTransformBinds[1].offset[2] = Num(7, 8)
    /\ gltfExtensions.preset["blink"].textureTransformBinds[2].material.value = 4

(***************************************************************************)
(* The order of the weight pair                                            *)
(***************************************************************************)
\* w = smoothstep(edge0, edge1, v) of vertex i of the Part under construction
BlendW(i) ==
    smoothstep(BlendInterval(i)[1], BlendInterval(i)[2], BlendValue(i))

\* the weights of vertex i are 1 - w on the first listed bone and w on the second
FirstBoneOneMinusW(i) ==
    /\ Eq(skinWeights[i][1], Sub(I(1), BlendW(i)))
    /\ Eq(skinWeights[i][2], BlendW(i))

\* the weights of vertex i are w on the first listed bone and 1 - w on the second
FirstBoneW(i) ==
    /\ Eq(skinWeights[i][1], BlendW(i))
    /\ Eq(skinWeights[i][2], Sub(I(1), BlendW(i)))

\* C18 as stated: every vertex of every blended Part (arm, leg, body) gets
\* 1 - w on the first bone of its index pair and w on the second.
C18_FirstBoneOneMinusW ==
    \A i \in DOMAIN skinWeights : FirstBoneOneMinusW(i)

\* C18, amended: the arm and the body give 1 - w to the first bone of the
\* pair and w to the second; the leg gives w to the first bone (the upper
\* leg) and 1 - w to the second (the lower leg), so the leg's first bone is
\* fully weighted at v = edge1 and its second at v = edge0.
C18_BlendPairOrder ==
    \A i \in DOMAIN skinWeights :
        /\ Len(skinIndices) = Len(skinWeights)
        /\ part \in {"leftArm", "rightArm"} =>
               /\ skinIndices[i] = <<boneIdx.upper, boneIdx.lower, 0, 0>>
               /\ FirstBoneOneMinusW(i)
        /\ part = "body" =>
               /\ \E s \in 1..4 : skinIndices[i] = <<boneIdx[s], boneIdx[s + 1], 0, 0>>
               /\ FirstBoneOneMinusW(i)
        /\ part \in {"leftLeg", "rightLeg"} =>
               /\ skinIndices[i] = <<boneIdx.upperLeg, boneIdx.lowerLeg, 0, 0>>
               /\ FirstBoneW(i)

\* a leg vertex strictly inside the blend interval and off its centre, where
\* the two orders differ
C18_Witness ==
    /\ part \in {"leftLeg", "rightLeg"}
    /\ \E i \in DOMAIN skinWeights :
           /\ Less(I(0), BlendW(i))
           /\ Less(BlendW(i), Num(1, 2))
           /\ Eq(skinWeights[i][1], BlendW(i))

(***************************************************************************)
(* The labels of the classification                                        *)
(***************************************************************************)
\* the number of the three vertex lists that hold vertex i
LabelCount(i) ==
    (IF Includes(mouthVertexIndices, i) THEN 1 ELSE 0)
        + (IF Includes(leftEyeVertexIndices, i) THEN 1 ELSE 0)
        + (IF Includes(rightEyeVertexIndices, i) THEN 1 ELSE 0)

\* the vertex of the running iteration satisfies the mouth predicate and an
\* eye predicate
MouthAndEye ==
    /\ vertexLocals # <<>>
    /\ InMouth(vertexLocals[1], vertexLocals[2], vertexLocals[3])
    /\ \/ InLeftEye(vertexLocals[4], vertexLocals[5])
       \/ InRightEye(vertexLocals[4], vertexLocals[5])

\* C19: no vertex index is in more than one of the three vertex lists (nor
\* twice in one), and the vertex an iteration has just classified, when it
\* satisfies the mouth predicate and an eye predicate, is in the mouth list
\* only.
C19_AtMostOneLabel ==
    /\ \A i \in 0..(HeadVerts - 1) : LabelCount(i) <= 1
    /\ \A j, k \in DOMAIN mouthVertexIndices :
           j # k => mouthVertexIndices[j] # mouthVertexIndices[k]
    /\ MouthAndEye =>
           /\ Includes(mouthVertexIndices, vertexCount - 1)
           /\ ~Includes(leftEyeVertexIndices, vertexCount - 1)
           /\ ~Includes(rightEyeVertexIndices, vertexCount - 1)

\* an iteration has classified a vertex in the mouth region whose uv is in
\* the left eye's rectangle, after a vertex labelled left eye
C19_Witness ==
    /\ MouthAndEye
    /\ InLeftEye(vertexLocals[4], vertexLocals[5])
    /\ vertexCount = 2
    /\ leftEyeVertexIndices = <<0>>
    /\ mouthVertexIndices = <<1>>

(***************************************************************************)
(* The collision policy of the name-to-index map                           *)
(***************************************************************************)
\* the array indices of the nodes carrying a name
IndicesOf(name) ==
    {i - 1 : i \in {j \in DOMAIN gltfNodes : gltfNodes[j] = name}}

\* the names carried by more than one node
DuplicateNames ==
    {gltfNodes[i] : i \in DOMAIN gltfNodes} \ ({""} \cup
        {n \in {gltfNodes[i] : i \in DOMAIN gltfNodes} : Cardinality(IndicesOf(n)) = 1})

\* C20: once afterParse has run, a bone name resolves to the index of the
\* first node carrying it, every name carried by several nodes has been
\* logged, and the pass has not been aborted (unnamed nodes are skipped).
C20_FirstOccurrenceWins ==
    afterParseRuns >= 1 =>
        /\ exportError = "none"
        /\ \A b \in DOMAIN gltfExtensions.humanBones :
               \A i \in IndicesOf(b) : gltfExtensions.humanBones[b].node <= i
        /\ \A n \in DuplicateNames : \E i \in DOMAIN warnings : warnings[i] = n

(***************************************************************************)
(* The hooks of one pass and the moment afterParse reads their state       *)
(***************************************************************************)
\* the traversal of the pass has indexed every node and material it indexes
TraversalDone ==
    /\ traversal.bone = Len(boneNames)
    /\ traversal.material = Len(SceneMaterials)

PresetMaterials ==
    [ aa |-> <<"headMouthMaterial">>, ih |-> <<"headMouthMaterial">>,
      ou |-> <<"headMouthMaterial">>, ee |-> <<"headMouthMaterial">>,
      oh |-> <<"headMouthMaterial">>,
      blink |-> <<"headLeftEyeMaterial", "headRightEyeMaterial">>,
      blinkLeft |-> <<"headLeftEyeMaterial">>,
      blinkRight |-> <<"headRightEyeMaterial">> ]

\* the unnamed materials of the pass have collided on the key ""
UnnamedCollide ==
    Cardinality({i \in DOMAIN gltfMaterials : gltfMaterials[i] = ""}) >= 2

\* C22: in the written block, the material index of every bind whose head
\* material the exporter indexed is the position of that material in
\* gltf.materials: the mouth material for aa, ih, ou, ee and oh, the left-eye
\* material for blinkLeft, the right-eye material for blinkRight and both
\* for blink, also when the unnamed materials have collided on the key "".
C22_BindMaterialIndex ==
    gltfExtensions.defined =>
        \A p \in DOMAIN PresetMaterials :
            LET binds == gltfExtensions.preset[p].textureTransformBinds
            IN  \A i \in DOMAIN binds :
                    (\E k \in DOMAIN gltfMaterials : gltfMaterials[k] = PresetMaterials[p][i]) =>
                        /\ binds[i].material.defined
                        /\ binds[i].material.value + 1 \in DOMAIN gltfMaterials
                        /\ gltfMaterials[binds[i].material.value + 1] = PresetMaterials[p][i]

\* the block has been written on a pass whose unnamed materials collided and
\* that indexed the three bound head materials
C22_Witness ==
    /\ gltfExtensions.defined
    /\ UnnamedCollide
    /\ materialToIndex[""] = 5
    /\ gltfExtensions.preset["aa"].textureTransformBinds[1].material = [defined |-> TRUE, value |-> 2]
    /\ gltfExtensions.preset["blink"].textureTransformBinds[2].material = [defined |-> TRUE, value |-> 4]

(***************************************************************************)
(* The export of the composed model                                        *)
(***************************************************************************)
\* the names carried by a Part and by the bone made for it
SharedNames == {"head", "leftHand", "rightHand", "leftFoot", "rightFoot"}

\* the export pass of the composed model has written its block
ModelExported ==
    /\ step = Len(Script)
    /\ afterParseRuns >= 1

\* C23: the bone subtree is the last child of the root group, and once the
\* composed model is exported by an exporter that indexes the children of a
\* parent in child order, each of head, leftHand, rightHand, leftFoot and
\* rightFoot is the name of exactly three nodes (the Part's group, its mesh
\* and the bone) and its humanBones entry is the index of the bone's node.
C23_SharedNamesResolveToBone ==
    ModelExported =>
        /\ objChildren[Model][Len(objChildren[Model])] = BoneOf("hips")
        /\ traversal.order \in Orders
        /\ LET list == ProcessNode(Model, traversal.order)
           IN  /\ gltfNodes = [i \in DOMAIN list |-> NameOf(list[i])]
               /\ \A n \in SharedNames :
                      /\ {list[i + 1] : i \in IndicesOf(n)} =
                             {GroupOf(n), MeshOf(n), BoneOf(n)}
                      /\ Cardinality(IndicesOf(n)) = 3
                      /\ n \in DOMAIN gltfExtensions.humanBones
                      /\ list[gltfExtensions.humanBones[n].node + 1] = BoneOf(n)

\* the composed model has been exported and the entry of head is the
\* greatest of the three indices of the name
C23_Witness ==
    /\ ModelExported
    /\ Cardinality(IndicesOf("head")) = 3
    /\ \A i \in IndicesOf("head") : i <= gltfExtensions.humanBones["head"].node
    /\ gltfExtensions.humanBones["head"].node \in IndicesOf("head")

\* the canonical bone names
CanonicalNames == {boneNames[i] : i \in DOMAIN boneNames}

\* C24: the bones the build sequence has created when the skeleton is built
\* are 20 bones with pairwise distinct names, the names being exactly the
\* canonical boneNames; the export of the built model then writes a
\* humanBones block of 20 entries, one for each canonical name, and logs no
\* missing-bone warning.
C24_BonesAreCanonical ==
    /\ skeleton.built =>
           /\ Len(bones) = 20
           /\ Len(boneNames) = 20
           /\ Cardinality(CanonicalNames) = 20
           /\ \A i, j \in DOMAIN bones : i # j => bones[i] # bones[j]
           /\ {bones[i] : i \in DOMAIN bones} = CanonicalNames
           /\ skeleton.bones = bones
    /\ ModelExported =>
           /\ DOMAIN gltfExtensions.humanBones = CanonicalNames
           /\ warnings = <<>>
           /\ exportError = "none"

\* the built model has been exported with a block of 20 entries
C24_Witness ==
    /\ ModelExported
    /\ Len(skeleton.bones) = 20
    /\ Cardinality(DOMAIN gltfExtensions.humanBones) = 20
    /\ afterParseRuns = 1

(***************************************************************************)
(* Continuity of the body's weights across its four segments               *)
(***************************************************************************)
RECURSIVE WeightOfFrom(_, _, _)
\* the weight vertex i gives to the bone of index b, summed over the slots
\* from the given one on
WeightOfFrom(i, b, slot) ==
    IF slot > 4
        THEN I(0)
        ELSE Add(IF skinIndices[i][slot] = b THEN skinWeights[i][slot] ELSE I(0),
                 WeightOfFrom(i, b, slot + 1))

\* the total weight vertex i gives to the bone of index b
WeightOf(i, b) == WeightOfFrom(i, b, 1)

\* 1 - 3 * ((edge1 - y) / (edge1 - edge0))^2: a lower bound of smoothstep
\* below edge1 that tends to 1 as y tends to edge1
NearOne(edge0, edge1, y) ==
    LET d == Div(Sub(edge1, y), Sub(edge1, edge0))
    IN  Sub(I(1), Mul(I(3), Mul(d, d)))

\* the body Part, built
BodyBuilt == pc = "built" /\ part = "body"

TestOrders == Perms(<<GROUP_MOUTH, GROUP_LEFT_EYE, GROUP_RIGHT_EYE>>)

\* mouthCount, leftEyeCount or rightEyeCount of triangle t
RegionCount(g, t) ==
    Labelled(CASE g = GROUP_MOUTH -> mouthVertexIndices
               [] g = GROUP_LEFT_EYE -> leftEyeVertexIndices
               [] g = GROUP_RIGHT_EYE -> rightEyeVertexIndices, t)

\* the group of triangle t when the tests are evaluated in order o
GroupInOrder(o, t) ==
    IF RegionCount(o[1], t) >= 2 THEN o[1]
    ELSE IF RegionCount(o[2], t) >= 2 THEN o[2]
    ELSE IF RegionCount(o[3], t) >= 2 THEN o[3]
    ELSE GROUP_FACE

\* C26: for every triangle of the built head, degenerate ones included,
\* mouthCount + leftEyeCount + rightEyeCount <= 3, at most one region has a
\* count of 2 or more, and the list the triangle is in is the one the three
\* majority tests pick in whatever order they are evaluated.
C26_PriorityIrrelevant ==
    HeadBuilt => \A k \in 1 .. TriCount(index) :
        LET t == Tri(index, k)
        IN  /\ RegionCount(GROUP_MOUTH, t) + RegionCount(GROUP_LEFT_EYE, t)
                  + RegionCount(GROUP_RIGHT_EYE, t) <= 3
            /\ Cardinality({g \in AllGroups \ {GROUP_FACE} : RegionCount(g, t) >= 2}) <= 1
            /\ \A o \in TestOrders : GroupsHolding(t) = {GroupInOrder(o, t)}

\* the built head has a degenerate triangle with the same mouth-labelled
\* vertex twice and an eye-labelled vertex, in the mouth list
C26_Witness ==
    HeadBuilt /\ \E k \in 1 .. TriCount(index) :
        LET t == Tri(index, k)
        IN  /\ t[1] = t[2]
            /\ RegionCount(GROUP_MOUTH, t) = 2
            /\ RegionCount(GROUP_LEFT_EYE, t) + RegionCount(GROUP_RIGHT_EYE, t) = 1
            /\ InList(mouthIndices, t)

(***************************************************************************)
(* The face atlas: createFaceTextureAtlasCanvas and the UV loop of         *)
(* createHead                                                              *)
(***************************************************************************)
AtlasSlice == 256     \* const h of createFaceTextureAtlasCanvas, in pixels

\* the v of the sphere geometry's UVs, in 1/100
OrigVs == {0, 25, 50, 75, 100}

\* what the steps of the atlas and of the UV loop leave alone
AtlasFrame ==
    /\ UNCHANGED <<skinVars, partMaterial, segVars>>
    /\ UNCHANGED expVars
    /\ UNCHANGED buildVars
    /\ UNCHANGED <<ctlVars, renderVars>>

\* createFaceTextureAtlasCanvas up to its loop: canvas.height = h * TextureKinds.length
CreateAtlasCanvas ==
    /\ pc = "start"
    /\ atlasCanvas' = [height |-> AtlasSlice * Len(TextureKinds), draws |-> <<>>]
    /\ pc' = "atlas"
    /\ UNCHANGED headUv
    /\ AtlasFrame

\* one iteration of its loop: g.drawImage(createFaceTextureCanvas(kind), 0, i * h, width, h)
DrawKind ==
    /\ pc = "atlas"
    /\ Len(atlasCanvas.draws) < Len(TextureKinds)
    /\ LET i == Len(atlasCanvas.draws)
       IN  atlasCanvas' = [atlasCanvas EXCEPT !.draws =
               Append(@, [kind |-> TextureKinds[i + 1], y |-> i * AtlasSlice, h |-> AtlasSlice])]
    /\ UNCHANGED <<pc, headUv>>
    /\ AtlasFrame

\* the loop ends and the canvas is returned; createHead goes on to its UV loop
EndAtlas ==
    /\ pc = "atlas"
    /\ Len(atlasCanvas.draws) = Len(TextureKinds)
    /\ pc' = "uv"
    /\ UNCHANGED <<headUv, atlasCanvas>>
    /\ AtlasFrame

\* the rewrite of part_000's createHead: v * 0.5
RewriteVHalf(v) == Mul(v, Num(1, 2))

\* (1 - v) / TextureKinds.length
RewriteV(v) == Div(Sub(I(1), v), I(Len(TextureKinds)))

\* one iteration of the UV loop: uv.setXY(i, u, (1 - v) / TextureKinds.length);
\* v100 is uv.getY(i) in 1/100
RewriteUv(v100) ==
    /\ pc = "uv"
    /\ Len(headUv) < HeadVerts
    /\ headUv' = Append(headUv, RewriteV(Num(v100, 100)))
    /\ UNCHANGED <<pc, atlasCanvas>>
    /\ AtlasFrame

\* the UV loop ends at uv.count
EndUv ==
    /\ pc = "uv"
    /\ Len(headUv) = HeadVerts
    /\ pc' = "uvdone"
    /\ UNCHANGED <<headUv, atlasCanvas>>
    /\ AtlasFrame

InitAtlas ==
    /\ pc = "start"
    /\ bones = <<>>
    /\ boneChildren = <<>>
    /\ boneIdx = <<>>
    /\ part = ""
    /\ position = <<>>
    /\ skinIndices = <<>>
    /\ skinWeights = <<>>
    /\ probe = NoProbe
    /\ partMaterial = <<>>
    /\ InitSegIdle
    /\ InitExportIdle
    /\ InitBuildIdle
    /\ InitUiIdle

NextAtlas ==
    \/ CreateAtlasCanvas
    \/ DrawKind
    \/ EndAtlas
    \/ \E v100 \in OrigVs : RewriteUv(v100)
    \/ EndUv

SpecAtlas == InitAtlas /\ [][NextAtlas]_vars

\* 1 / N for the N declared texture kinds
SliceHeight == Div(I(1), I(Len(TextureKinds)))

\* the v offset emitted for a kind in a textureTransformBinds entry
BindOffsetV(kind) == TextureTransformBind("headMouthMaterial", kind).offset[2]

MaxCalls == 3      \* calls of setExpression and setExpressionWeight

CtlVerts == 2      \* vertices of the head geometry

\* the expressions and weights (in 1/100) the callers pass
ExpressionChoice == {"normal", "aa", "blink"}
WeightChoice == {30, 80, 100}

\* createHead: uv.setXY(i, u, v * 0.5)
HalveV(v) == Mul(v, Num(1, 2))

\* the v setExpression writes for a mouth vertex
SwitchV(expression, v) ==
    IF expression = "aa"
        THEN Add(Mul(v, Num(1, 2)), Num(1, 2))
        ELSE Mul(v, Num(1, 2))

\* what the controller's methods leave alone
CtlFrame ==
    /\ UNCHANGED <<pc, skinVars, partMaterial, segVars>>
    /\ UNCHANGED expVars
    /\ UNCHANGED buildVars
    /\ UNCHANGED <<atlasCanvas, initialUv, renderVars>>

\* expressionController.setHeadMesh(model): findHeadMesh stops at the head's
\* SkinnedMesh, the only one with morph-target influences.  The script calls
\* it once the model is built, before any frame sets an expression.
setHeadMesh ==
    /\ pc = "controller"
    /\ headMesh = "null"
    /\ lastCall.count = 0
    /\ headMesh' = "head"
    /\ UNCHANGED <<currentExpression, morphTargetInfluences, lastCall, headUv>>
    /\ CtlFrame

\* the body of setExpression(expression, weight), called through method
SetExpressionBody(method, expression, weight) ==
    /\ pc = "controller"
    /\ lastCall.count < MaxCalls
    /\ lastCall' = [ count |-> lastCall.count + 1,
                     method |-> method,
                     expression |-> expression,
                     weight |-> weight,
                     currentExpression |-> currentExpression,
                     headUv |-> headUv,
                     morphTargetInfluences |-> morphTargetInfluences ]
    /\ IF currentExpression = expression
         THEN UNCHANGED <<currentExpression, morphTargetInfluences, headUv>>
         ELSE /\ currentExpression' = expression
              /\ morphTargetInfluences' =
                     IF headMesh # "null" /\ Len(morphTargetInfluences) > 0
                         THEN [morphTargetInfluences EXCEPT
                                  ![1] = IF expression = "aa" THEN Num(weight, 100) ELSE I(0)]
                         ELSE morphTargetInfluences
              /\ headUv' = [i \in DOMAIN headUv |->
                                IF Includes(mouthVertexIndices, i - 1)
                                    THEN SwitchV(expression, headUv[i])
                                    ELSE headUv[i]]
    /\ UNCHANGED headMesh
    /\ UNCHANGED <<skinVars, partMaterial>>
    /\ UNCHANGED <<pc, segVars, atlasCanvas, initialUv, renderVars>>
    /\ UNCHANGED expVars
    /\ UNCHANGED buildVars

\* setExpression(expression: string, weight: number = 1.0)
setExpression(expression, weight) ==
    SetExpressionBody("setExpression", expression, weight)

\* setExpressionWeight(expressionName, weight) { this.setExpression(expressionName, weight) }
setExpressionWeight(expressionName, weight) ==
    SetExpressionBody("setExpressionWeight", expressionName, weight)

\* new ExpressionController(head) after createHead: every v is halved, the
\* mouth vertices are vertex 0 or both vertices, and Part.build has filled
\* the head mesh's one morph-target influence with 0
InitExpression ==
    /\ pc = "controller"
    /\ bones = <<>>
    /\ boneChildren = <<>>
    /\ boneIdx = <<>>
    /\ part = ""
    /\ position = <<>>
    /\ skinIndices = <<>>
    /\ skinWeights = <<>>
    /\ probe = NoProbe
    /\ partMaterial = <<>>
    /\ vertexCount = 0
    /\ mouthVertexIndices \in {<<0>>, <<0, 1>>}
    /\ leftEyeVertexIndices = <<>>
    /\ rightEyeVertexIndices = <<>>
    /\ index = <<>>
    /\ faceIndices = <<>>
    /\ mouthIndices = <<>>
    /\ leftEyeIndices = <<>>
    /\ rightEyeIndices = <<>>
    /\ newIndices = <<>>
    /\ groups = <<>>
    /\ vertexLocals = <<>>
    /\ InitExportIdle
    /\ InitBuildIdle
    /\ headUv \in {[i \in 1 .. CtlVerts |-> HalveV(Num(f[i], 100))] :
                       f \in [1 .. CtlVerts -> {0, 50, 100}]}
    /\ initialUv = headUv
    /\ atlasCanvas = [height |-> 0, draws |-> <<>>]
    /\ currentExpression = "normal"
    /\ headMesh = "null"
    /\ morphTargetInfluences = <<I(0)>>
    /\ lastCall = NoCall
    /\ vrm = "null"
    /\ exportState = "idle"
    /\ link = "none"
    /\ listeners = 0
    /\ downloads = 0
    /\ consoleErrors = <<>>
    /\ animating = FALSE
    /\ frameCount = 0
    /\ lastFrame = NoFrame
    /\ expressionValues = <<>>
    /\ loadState = "idle"
    /\ sceneChildren = <<>>

NextExpression ==
    \/ setHeadMesh
    \/ \E expression \in ExpressionChoice, weight \in WeightChoice :
           setExpression(expression, weight)
    \/ \E expressionName \in ExpressionChoice, weight \in WeightChoice :
           setExpressionWeight(expressionName, weight)

SpecExpression == InitExpression /\ [][NextExpression]_vars

\* a controller exists
Constructed == currentExpression # ""

\* C28 (as claimed): setExpression("aa") followed by setExpression("normal")
\* on a fresh controller restores the v of every mouth vertex, and after any
\* sequence of calls the v of a mouth vertex is, for the current expression
\* "aa", in [0.5, 1] and the initial v moved down by half the atlas, and
\* otherwise in [0, 0.5] and the initial v.
C28_UvRoundTrip ==
    Constructed =>
        /\ ( /\ lastCall.count = 2
             /\ lastCall.expression = "normal"
             /\ lastCall.currentExpression = "aa" ) =>
                \A i \in DOMAIN headUv :
                    Includes(mouthVertexIndices, i - 1) => Eq(headUv[i], initialUv[i])
        /\ \A i \in DOMAIN headUv :
               Includes(mouthVertexIndices, i - 1) =>
                   IF currentExpression = "aa"
                       THEN /\ Leq(Num(1, 2), headUv[i]) /\ Leq(headUv[i], I(1))
                            /\ Eq(headUv[i], Add(initialUv[i], Num(1, 2)))
                       ELSE /\ Leq(I(0), headUv[i]) /\ Leq(headUv[i], Num(1, 2))
                            /\ Eq(headUv[i], initialUv[i])

\* C29 (as claimed): a call with the expression that is already current
\* changes nothing, the first call setExpression("normal") included; and
\* after a call setExpressionWeight(name, w) on a controller that holds the
\* head mesh, the mesh's morph-target influence 0 is w for the name "aa" and
\* 0 for any other name, also when the name was current before the call.
C29_InfluenceFollowsWeight ==
    lastCall.count >= 1 =>
        /\ lastCall.expression = lastCall.currentExpression =>
               /\ currentExpression = lastCall.currentExpression
               /\ headUv = lastCall.headUv
               /\ morphTargetInfluences = lastCall.morphTargetInfluences
        /\ (lastCall.method = "setExpressionWeight" /\ headMesh = "head") =>
               Eq(morphTargetInfluences[1],
                  IF lastCall.expression = "aa" THEN Num(lastCall.weight, 100) ELSE I(0))

(***************************************************************************)
(* exporter.parse, its callbacks, the loader and the render loop.  Every   *)
(* callback runs to completion; the browser orders the animation frames,   *)
(* the loader's callback and the clicks in any way.                        *)
(***************************************************************************)
MaxFrames == 5     \* runs of animate
MaxClicks == 2     \* clicks on exportBtn

\* The expression whose condition Math.abs(Math.sin(t * 0.5 + k)) > 0.2 is
\* false in a frame; the three phases are 1 apart, so at most one is
Dips == {"none", "aa", "blinkLeft", "blinkRight"}

\* what the loader can hand over as gltf.userData.vrm
LoadResults == {"VRM", "undefined"}

\* the test of animate taken for true whatever vrm is
VrmAny(v) == TRUE

\* vrm != null
VrmNotNull(v) == v \notin {"null", "undefined"}

\* the three setValue calls of a frame
SetValues(dip) ==
    [ aa         |-> IF dip = "aa" THEN 1 ELSE 0,
      blinkLeft  |-> IF dip = "blinkLeft" THEN 1 ELSE 0,
      blinkRight |-> IF dip = "blinkRight" THEN 1 ELSE 0 ]

\* function animate() { requestAnimationFrame(animate); ... }
animate(dip) ==
    /\ animating' = TRUE
    /\ frameCount' = frameCount + 1
    /\ IF VrmNotNull(vrm)
         THEN /\ lastFrame' = [ vrm |-> vrm, updated |-> TRUE, values |-> SetValues(dip),
                                updates |-> lastFrame.updates + 1 ]
              /\ expressionValues' = SetValues(dip)
         ELSE /\ lastFrame' = [ vrm |-> vrm, updated |-> FALSE, values |-> <<>>,
                                updates |-> lastFrame.updates ]
              /\ UNCHANGED expressionValues

\* what the callbacks leave alone
RenderFrame ==
    /\ UNCHANGED <<pc, skinVars, partMaterial, segVars>>
    /\ UNCHANGED expVars
    /\ UNCHANGED buildVars
    /\ UNCHANGED <<atlasVars, ctlVars>>

\* the success callback of exporter.parse: the blob and the link are
\* created, animate() runs (the clock starts, so t = 0 and aa is in its
\* dip), the click listener is added and loader.load is started
ExportDone ==
    /\ exportState = "parsing"
    /\ exportState' = "done"
    /\ link' = "kgtkr.vrm"
    /\ animate("aa")
    /\ listeners' = listeners + 1
    /\ loadState' = "loading"
    /\ UNCHANGED <<vrm, downloads, consoleErrors, sceneChildren>>
    /\ RenderFrame

\* the error callback of exporter.parse
ExportFailed ==
    /\ exportState = "parsing"
    /\ exportState' = "failed"
    /\ consoleErrors' = Append(consoleErrors, "An error occurred during export:")
    /\ UNCHANGED <<vrm, link, listeners, downloads, animating, frameCount, lastFrame,
                   expressionValues, loadState, sceneChildren>>
    /\ RenderFrame

\* an animation frame: the browser calls animate
AnimationFrame(dip) ==
    /\ animating
    /\ frameCount < MaxFrames
    /\ animate(dip)
    /\ UNCHANGED <<vrm, exportState, link, listeners, downloads, consoleErrors, loadState,
                   sceneChildren>>
    /\ RenderFrame

\* the load callback: vrm = gltf.userData.vrm as VRM; ...; scene.add(gltf.scene).
\* With no VRM in userData the VRMUtils calls on it may throw before scene.add.
LoadDone(result, thrown) ==
    /\ loadState = "loading"
    /\ loadState' = "loaded"
    /\ vrm' = result
    /\ sceneChildren' =
           IF result = "undefined" /\ thrown THEN sceneChildren
                                             ELSE Append(sceneChildren, "gltf.scene")
    /\ UNCHANGED <<exportState, link, listeners, downloads, consoleErrors, animating,
                   frameCount, lastFrame, expressionValues>>
    /\ RenderFrame

\* the error callback of loader.load
LoadFailed ==
    /\ loadState = "loading"
    /\ loadState' = "failed"
    /\ consoleErrors' = Append(consoleErrors, "load")
    /\ UNCHANGED <<vrm, exportState, link, listeners, downloads, animating, frameCount,
                   lastFrame, expressionValues, sceneChildren>>
    /\ RenderFrame

\* a click on exportBtn: link.click()
ClickExport ==
    /\ listeners > 0
    /\ downloads < MaxClicks
    /\ downloads' = downloads + listeners
    /\ UNCHANGED <<vrm, exportState, link, listeners, consoleErrors, animating, frameCount,
                   lastFrame, expressionValues, loadState, sceneChildren>>
    /\ RenderFrame

\* exporter.parse has been called and neither callback has run
InitRender ==
    /\ pc = "render"
    /\ bones = <<>>
    /\ boneChildren = <<>>
    /\ boneIdx = <<>>
    /\ part = ""
    /\ position = <<>>
    /\ skinIndices = <<>>
    /\ skinWeights = <<>>
    /\ probe = NoProbe
    /\ partMaterial = <<>>
    /\ InitSegIdle
    /\ InitExportIdle
    /\ InitBuildIdle
    /\ headUv = <<>>
    /\ atlasCanvas = [height |-> 0, draws |-> <<>>]
    /\ currentExpression = ""
    /\ headMesh = "null"
    /\ morphTargetInfluences = <<>>
    /\ lastCall = NoCall
    /\ initialUv = <<>>
    /\ vrm = "null"
    /\ exportState = "parsing"
    /\ link = "none"
    /\ listeners = 0
    /\ downloads = 0
    /\ consoleErrors = <<>>
    /\ animating = FALSE
    /\ frameCount = 0
    /\ lastFrame = NoFrame
    /\ expressionValues = <<>>
    /\ loadState = "idle"
    /\ sceneChildren = <<>>

NextRender ==
    \/ ExportDone
    \/ ExportFailed
    \/ \E dip \in Dips : AnimationFrame(dip)
    \/ \E result \in LoadResults, thrown \in BOOLEAN : LoadDone(result, thrown)
    \/ LoadFailed
    \/ ClickExport

SpecRender == InitRender /\ [][NextRender]_vars

\* what holds of the loop in every state
RenderInvariant ==
    /\ animating => exportState = "done"
    /\ frameCount >= 1 => animating
    /\ exportState = "failed" =>
           /\ consoleErrors = <<"An error occurred during export:">>
           /\ link = "none"
           /\ listeners = 0
           /\ downloads = 0
           /\ loadState = "idle"
           /\ vrm = "null"
    /\ vrm = "null" => (lastFrame.updates = 0 /\ expressionValues = <<>>)
    /\ frameCount >= 1 => (lastFrame.updated <=> lastFrame.vrm = "VRM")

\* what holds of every step: a run of animate calls vrm.update and sets the
\* expression values exactly if vrm holds a VRM, and vrm is assigned once
RenderStep ==
    /\ frameCount' # frameCount =>
           /\ frameCount' = frameCount + 1
           /\ lastFrame'.vrm = vrm
           /\ vrm = "VRM" =>
                  /\ lastFrame'.updated
                  /\ lastFrame'.updates = lastFrame.updates + 1
                  /\ expressionValues' = lastFrame'.values
                  /\ DOMAIN expressionValues' = {"aa", "blinkLeft", "blinkRight"}
           /\ vrm = "null" =>
                  /\ ~lastFrame'.updated
                  /\ lastFrame'.updates = lastFrame.updates
                  /\ expressionValues' = expressionValues
    /\ vrm # "null" => vrm' = vrm

\* C30: the render loop runs only after the success callback of the export
\* (after the error callback there is one console.error, no link, no
\* listener, no load and no frame); a frame that runs while vrm is null calls
\* neither vrm.update nor setValue, however the frames and the loader's
\* callback are interleaved; and every frame that runs once vrm holds the
\* VRM updates it and sets the three expression values.
C30_FramesGuardVrm == []RenderInvariant /\ [][RenderStep]_vars

\* two frames have run before the loader handed the VRM over and two after
C30_Witness ==
    /\ frameCount = 4
    /\ vrm = "VRM"
    /\ lastFrame.updates = 2
    /\ lastFrame.updated
    /\ exportState = "done"

====
